---- MODULE Spec2Model ----
(***************************************************************************)
(* Verification model of groundlight/stream: the worker pool of            *)
(* stream/threads.py, the RTSP "latest frame" grabber of stream/grabber.py *)
(* and the capture loop of stream/main.py and stream/stream.py.            *)
(*                                                                         *)
(* The specifications share one set of variables:                          *)
(*   Spec / FairSpec  queue + worker_loop threads + a producer + shutdown  *)
(*   GrabberSpec      RTSPFrameGrabber: drain thread, grab(), release()    *)
(*   CaptureSpec      run_capture_loop, one action per loop cycle          *)
(*   ConstructSpec    RTSPFrameGrabber.__init__, then as GrabberSpec       *)
(*   MainSpec         main() of main.py and stream.py around the workers   *)
(*   FileSpec         FileStreamFrameGrabber.grab(), frame decimation      *)
(*   CallSpec         one call of a function of image_processing.py        *)
(*   StartupSpec      main() from its command line to the first frame      *)
(*   PipelineSpec     the capture loop at 5 fps feeding the workers        *)
(*   OrderSpec        the capture loop feeding workers of any speed        *)
(*   FairGrabberSpec  GrabberSpec under fair scheduling                    *)
(*   ShutdownSpec     main() of main.py, fair for the main thread only     *)
(*   LegacySpec       frame_processor of streamlight.py and src/stream.py  *)
(* Time is counted in ticks of a tenth of a second.                        *)
(***************************************************************************)
EXTENDS Integers, Sequences, FiniteSets

\* ------------------------------------------------------------------------
\* Bounds of the model
\* ------------------------------------------------------------------------
MaxWorkers == 3
MaxItems == 3
MaxCallers == 2
MaxCycles == 7
Horizon == 70
StartTime == 100
MaxGrabTime == 3
MaxGrabs == 400
MaxFields == 5
MaxDim == 4
MaxPipelineCycles == 4
MaxShutdownItems == 2

\* ------------------------------------------------------------------------
\* State
\* ------------------------------------------------------------------------
VARIABLES
    \* threads.py: the queue, the ThreadControl and the worker threads
    q,                  \* Queue(): items in FIFO order
    unfinished,         \* Queue.unfinished_tasks
    exit_all_threads,   \* ThreadControl.exit_all_threads
    num_workers,        \* setup_workers(num_workers=...)
    wpc,                \* position of each worker thread in worker_loop
    work,               \* the local `work` of each worker (0: none)
    nput,               \* number of q.put() calls made so far
    calls,              \* per item: how often fn(item) was invoked
    callers,            \* per item: the workers that invoked fn(item)
    raised,             \* number of fn() invocations that raised
    \* grabber.py: RTSPFrameGrabber
    keep_connection_open,   \* RTSPFrameGrabber.keep_connection_open
    lock,               \* RTSPFrameGrabber.lock: the thread holding it
    run,                \* RTSPFrameGrabber.run
    capture,            \* RTSPFrameGrabber.capture: state of the session
    dpc,                \* position of the drain thread in _drain
    cpc,                \* position of each calling thread in grab()/release()
    released,           \* some release() call has returned
    \* main.py / stream.py: run_capture_loop
    cap_pc,             \* position of the capture loop
    loop_kind,          \* which run_capture_loop: "main" or "stream"
    grabber_kind,       \* the class of the grabber handed to the loop
    fps,                \* fps argument, frames per second
    motion_enabled,     \* motion_detector is not None
    post_motion_time,   \* in ticks
    max_frame_interval, \* in ticks
    now,                \* time.time(), in ticks
    last_frame_time,    \* local of run_capture_loop
    motion_start,       \* local of run_capture_loop
    ngrab,              \* number of grabber.grab() calls made
    nframes,            \* number of them that returned a frame
    cyc,                \* what the latest loop cycle did
    motionAt,           \* when motion was last detected (-1: never)
    nmotion,            \* number of motion events (saturates at 2)
    enqAt,              \* when the loop last enqueued (initially: loop start)
    gap,                \* time between the two latest enqueues
    \* main() of main.py / stream.py and the callers of ThreadControl
    main_pc,            \* position of the main thread in main()
    entry,              \* which main(): "main" or "stream"
    args_fps,           \* args.fps
    loop_started,       \* run_capture_loop has been entered
    interrupted,        \* KeyboardInterrupt reached main()
    joined,             \* number of worker.join(timeout=5.0) calls returned
    force_exit_raised,  \* a tc.force_exit() call raised AttributeError
    shutdownAt,         \* value of nput when shutdown() was called
    \* RTSPFrameGrabber.__init__ and the results of grab()
    ctor,               \* how __init__ ended
    openable,           \* the source's capture session can be opened
    last_grab,          \* per calling thread: what its latest grab() returned
    \* image_processing.py
    call,               \* the latest call of a function: arguments and outcome
    \* grabber.py: FileStreamFrameGrabber
    fps_source,         \* FileStreamFrameGrabber.fps_source
    fps_target,         \* FileStreamFrameGrabber.fps_target
    remainder,          \* FileStreamFrameGrabber.remainder, in hundredths
    consumed,           \* number of capture.read() calls made by grab()
    kgrabs,             \* number of grab() calls returned
    \* main(): from the command line to setup_workers
    su_pc,              \* position of main() in its start-up
    cli,                \* the parsed command line (args)
    stream,             \* local `stream` of main(): the identifier, kind of value
    stream_type,        \* local `stream_type` of main()
    grabber,            \* the grabber class created ("none": not yet)
    worker_count,       \* local `worker_count` of main()
    nthreads,           \* number of threads started so far
    su_error,           \* the exception that ended the start-up ("none": none)
    \* run_capture_loop: cropping
    crop_on             \* crop_region is not None

wvars == <<q, unfinished, exit_all_threads, num_workers, wpc, work, nput,
           calls, callers, raised>>

gvars == <<keep_connection_open, lock, run, capture, dpc, cpc, released>>

cvars == <<cap_pc, loop_kind, grabber_kind, fps, motion_enabled,
           post_motion_time, max_frame_interval, now, last_frame_time,
           motion_start, ngrab, nframes, cyc, motionAt, nmotion, enqAt, gap>>

mvars == <<main_pc, entry, args_fps, loop_started, interrupted, joined,
           force_exit_raised>>

dvars == <<fps_source, fps_target, remainder, consumed, kgrabs>>

svars == <<su_pc, cli, stream, stream_type, grabber, worker_count, nthreads,
           su_error>>

pvars == <<call, dvars, svars, crop_on>>

evars == <<mvars, shutdownAt, ctor, openable, last_grab, pvars>>

vars == <<wvars, gvars, cvars, evars>>

Workers == 1..MaxWorkers
Items == 1..(IF MaxItems > MaxCycles THEN MaxItems ELSE MaxCycles)
NoWork == 0

\* ------------------------------------------------------------------------
\* threads.py
\* ------------------------------------------------------------------------

\* The worker threads that setup_workers started.
Started == 1..num_workers

\* A setup_workers whose loop starts one thread more than it was asked for.
InitWorkersOneMore ==
    /\ q = <<>>
    /\ unfinished = 0
    /\ exit_all_threads = FALSE
    /\ num_workers \in 1..MaxWorkers
    /\ wpc = [w \in Workers |-> IF w <= num_workers + 1 THEN "while" ELSE "absent"]
    /\ work = [w \in Workers |-> NoWork]
    /\ nput = 0
    /\ calls = [i \in Items |-> 0]
    /\ callers = [i \in Items |-> {}]
    /\ raised = 0

\* ThreadControl.__init__ and setup_workers: an empty queue, a cleared flag
\* and num_workers threads, each at the head of worker_loop.
InitWorkers ==
    /\ q = <<>>
    /\ unfinished = 0
    /\ exit_all_threads = FALSE
    /\ num_workers \in 1..MaxWorkers
    /\ wpc = [w \in Workers |-> IF w <= num_workers THEN "while" ELSE "absent"]
    /\ work = [w \in Workers |-> NoWork]
    /\ nput = 0
    /\ calls = [i \in Items |-> 0]
    /\ callers = [i \in Items |-> {}]
    /\ raised = 0

\* Queue.put(item): append and count the unfinished task.
QueuePut(item) ==
    /\ q' = Append(q, item)
    /\ unfinished' = unfinished + 1

\* The producer side of the queue: q.put(frame) of the capture loop, q.put of
\* the tests.  Items are numbered in the order they are offered.
Put ==
    /\ nput < MaxItems
    /\ nput' = nput + 1
    /\ QueuePut(nput + 1)
    /\ UNCHANGED <<exit_all_threads, num_workers, wpc, work, calls, callers, raised>>
    /\ UNCHANGED <<gvars, cvars, evars>>

\* ThreadControl.shutdown()
Shutdown ==
    /\ ~exit_all_threads
    /\ exit_all_threads' = TRUE
    /\ shutdownAt' = nput
    /\ UNCHANGED <<q, unfinished, num_workers, wpc, work, nput, calls, callers, raised>>
    /\ UNCHANGED <<gvars, cvars, mvars, ctor, openable, pvars, last_grab>>

\* `tc.force_exit()` on a ThreadControl of threads.py, as test_threads.py and
\* main() of stream.py call it: the class defines __init__ and shutdown only,
\* so the attribute lookup raises AttributeError and no field is assigned.
ForceExit ==
    /\ ~force_exit_raised
    /\ force_exit_raised' = TRUE
    /\ UNCHANGED <<main_pc, entry, args_fps, loop_started, interrupted, joined>>
    /\ UNCHANGED <<wvars, gvars, cvars, shutdownAt, ctor, openable, pvars, last_grab>>

\* A loop head that never looks at the flag (`while True:`).
WhileCheckIgnoresFlag(w) ==
    /\ wpc[w] = "while"
    /\ wpc' = [wpc EXCEPT ![w] = "get"]
    /\ UNCHANGED <<q, unfinished, exit_all_threads, num_workers, work, nput,
                   calls, callers, raised>>
    /\ UNCHANGED <<gvars, cvars, evars>>

\* `while not control.exit_all_threads:` the worker reads the flag.
WhileCheck(w) ==
    /\ wpc[w] = "while"
    /\ wpc' = [wpc EXCEPT ![w] = IF exit_all_threads THEN "exited" ELSE "get"]
    /\ UNCHANGED <<q, unfinished, exit_all_threads, num_workers, work, nput,
                   calls, callers, raised>>
    /\ UNCHANGED <<gvars, cvars, evars>>

\* A get that returns the head and leaves it in the queue.
QueuePeek ==
    q' = q

\* Queue.get under the queue's mutex: the head leaves the queue.
QueueGet ==
    q' = Tail(q)

\* A get on a last-in first-out queue: the newest item leaves the queue.
GetItemNewest(w) ==
    /\ wpc[w] = "get"
    /\ q # <<>>
    /\ q' = SubSeq(q, 1, Len(q) - 1)
    /\ work' = [work EXCEPT ![w] = q[Len(q)]]
    /\ wpc' = [wpc EXCEPT ![w] = "fn"]
    /\ calls' = [calls EXCEPT ![q[Len(q)]] = @ + 1]
    /\ callers' = [callers EXCEPT ![q[Len(q)]] = @ \cup {w}]
    /\ UNCHANGED <<unfinished, exit_all_threads, num_workers, nput, raised>>
    /\ UNCHANGED <<gvars, cvars, evars>>

\* `work = q.get(timeout=1)` returns an item and `fn(work)` is entered.
GetItem(w) ==
    /\ wpc[w] = "get"
    /\ q # <<>>
    /\ QueueGet
    /\ work' = [work EXCEPT ![w] = Head(q)]
    /\ wpc' = [wpc EXCEPT ![w] = "fn"]
    /\ calls' = [calls EXCEPT ![Head(q)] = @ + 1]
    /\ callers' = [callers EXCEPT ![Head(q)] = @ \cup {w}]
    /\ UNCHANGED <<unfinished, exit_all_threads, num_workers, nput, raised>>
    /\ UNCHANGED <<gvars, cvars, evars>>

\* A timed-out get that leaves the loop (`break`) instead of polling again.
GetEmptyBreak(w) ==
    /\ wpc[w] = "get"
    /\ q = <<>>
    /\ wpc' = [wpc EXCEPT ![w] = "exited"]
    /\ UNCHANGED <<q, unfinished, exit_all_threads, num_workers, work, nput,
                   calls, callers, raised>>
    /\ UNCHANGED <<gvars, cvars, evars>>

\* `except Empty: continue` the get timed out on an empty queue.
GetEmpty(w) ==
    /\ wpc[w] = "get"
    /\ q = <<>>
    /\ wpc' = [wpc EXCEPT ![w] = "while"]
    /\ UNCHANGED <<q, unfinished, exit_all_threads, num_workers, work, nput,
                   calls, callers, raised>>
    /\ UNCHANGED <<gvars, cvars, evars>>

\* `finally: q.task_done()` and back to the loop head.
TaskDone(w) ==
    /\ unfinished' = unfinished - 1
    /\ work' = [work EXCEPT ![w] = NoWork]
    /\ wpc' = [wpc EXCEPT ![w] = "while"]

\* fn(work) returns.
FnReturn(w) ==
    /\ wpc[w] = "fn"
    /\ TaskDone(w)
    /\ UNCHANGED <<q, exit_all_threads, num_workers, nput, calls, callers, raised>>
    /\ UNCHANGED <<gvars, cvars, evars>>

\* An exception of fn that reaches the outer handler and its `break`.
FnRaiseBreak(w) ==
    /\ wpc[w] = "fn"
    /\ unfinished' = unfinished - 1
    /\ work' = [work EXCEPT ![w] = NoWork]
    /\ wpc' = [wpc EXCEPT ![w] = "exited"]
    /\ raised' = raised + 1
    /\ UNCHANGED <<q, exit_all_threads, num_workers, nput, calls, callers>>
    /\ UNCHANGED <<gvars, cvars, evars>>

\* An exception of fn after which task_done is not called.
FnRaiseNoTaskDone(w) ==
    /\ wpc[w] = "fn"
    /\ work' = [work EXCEPT ![w] = NoWork]
    /\ wpc' = [wpc EXCEPT ![w] = "while"]
    /\ raised' = raised + 1
    /\ UNCHANGED <<q, unfinished, exit_all_threads, num_workers, nput, calls, callers>>
    /\ UNCHANGED <<gvars, cvars, evars>>

\* fn(work) raises an Exception: `except Exception as e: logger.error(...)`.
FnRaise(w) ==
    /\ wpc[w] = "fn"
    /\ TaskDone(w)
    /\ raised' = raised + 1
    /\ UNCHANGED <<q, exit_all_threads, num_workers, nput, calls, callers>>
    /\ UNCHANGED <<gvars, cvars, evars>>

\* One step of worker_loop in thread w.  The outer `except Exception: break`
\* is not reached from fn: the inner handler catches what fn raises.
WorkerStep(w) ==
    \/ WhileCheck(w)
    \/ GetItem(w)
    \/ GetEmpty(w)
    \/ FnReturn(w)
    \/ FnRaise(w)

\* ------------------------------------------------------------------------
\* grabber.py: RTSPFrameGrabber
\* ------------------------------------------------------------------------
Callers == 1..MaxCallers
DrainThread == 0
NoThread == -1

\* RTSPFrameGrabber.__init__ has returned.  Kept-open mode: _open_connection
\* found the session opened and _init_drain_thread started the thread.
\* Open-per-call mode: the VideoCapture of line 169 is kept as it is, opened
\* or not, and no thread is started.
InitGrabber ==
    /\ keep_connection_open \in BOOLEAN
    /\ lock = NoThread
    /\ run = TRUE
    /\ capture \in (IF keep_connection_open THEN {"open"} ELSE {"open", "unopened"})
    /\ dpc = IF keep_connection_open THEN "while" ELSE "absent"
    /\ cpc = [c \in Callers |-> "idle"]
    /\ released = FALSE

\* RTSPFrameGrabber.__init__ before it runs: the caller has chosen the mode
\* and the source either can be opened or cannot.
InitConstruct ==
    /\ keep_connection_open \in BOOLEAN
    /\ openable \in BOOLEAN
    /\ ctor = "pending"
    /\ lock = NoThread
    /\ run = FALSE
    /\ capture = "none"
    /\ dpc = "absent"
    /\ cpc = [c \in Callers |-> "absent"]
    /\ released = FALSE

\* RTSPFrameGrabber.__init__: `self.run = True`, then cv2.VideoCapture(url),
\* which never raises and yields a session that is opened or not.  Kept-open
\* mode: _open_connection raises ValueError when the session is not opened
\* (no object is returned, _init_drain_thread is not reached), otherwise the
\* drain thread is started.  Open-per-call mode: nothing is tested, the object
\* is returned with the session as VideoCapture left it.
Construct ==
    /\ ctor = "pending"
    /\ run' = TRUE
    /\ capture' = IF openable THEN "open" ELSE "unopened"
    /\ IF keep_connection_open /\ ~openable
       THEN /\ ctor' = "ValueError"
            /\ UNCHANGED <<dpc, cpc>>
       ELSE /\ ctor' = "returned"
            /\ dpc' = IF keep_connection_open THEN "while" ELSE "absent"
            /\ cpc' = [c \in Callers |-> "idle"]
    /\ UNCHANGED <<keep_connection_open, lock, released>>
    /\ UNCHANGED <<wvars, cvars, mvars, shutdownAt, openable, pvars, last_grab>>

\* `with self.lock:` entered by thread t.
LockAcquire(t) ==
    /\ lock = NoThread
    /\ lock' = t

\* `with self.lock:` left.
LockRelease ==
    lock' = NoThread

\* A drain loop that never looks at the running flag.
DrainWhileForever ==
    /\ dpc = "while"
    /\ dpc' = "lock"
    /\ UNCHANGED <<keep_connection_open, lock, run, capture, cpc, released>>
    /\ UNCHANGED <<wvars, cvars, evars>>

\* _drain: `while self.run:`
DrainWhile ==
    /\ dpc = "while"
    /\ dpc' = IF run THEN "lock" ELSE "exited"
    /\ UNCHANGED <<keep_connection_open, lock, run, capture, cpc, released>>
    /\ UNCHANGED <<wvars, cvars, evars>>

\* A drain loop that calls the session without taking the lock.
DrainAcquireUnlocked ==
    /\ dpc = "lock"
    /\ dpc' = "grab"
    /\ UNCHANGED <<keep_connection_open, lock, run, capture, cpc, released>>
    /\ UNCHANGED <<wvars, cvars, evars>>

\* _drain: `with self.lock:` acquired, `self.capture.grab()` entered.
DrainAcquire ==
    /\ dpc = "lock"
    /\ LockAcquire(DrainThread)
    /\ dpc' = "grab"
    /\ UNCHANGED <<keep_connection_open, run, capture, cpc, released>>
    /\ UNCHANGED <<wvars, cvars, evars>>

\* A drain loop that keeps the lock while it sleeps.
DrainGrabKeepsLock ==
    /\ dpc = "grab"
    /\ dpc' = "sleep"
    /\ UNCHANGED <<keep_connection_open, lock, run, capture, cpc, released>>
    /\ UNCHANGED <<wvars, cvars, evars>>

\* _drain: `self.capture.grab()` returns and the lock is released.
DrainGrab ==
    /\ dpc = "grab"
    /\ LockRelease
    /\ dpc' = "sleep"
    /\ UNCHANGED <<keep_connection_open, run, capture, cpc, released>>
    /\ UNCHANGED <<wvars, cvars, evars>>

\* _drain: `time.sleep(self.drain_rate)` is over.
DrainSleep ==
    /\ dpc = "sleep"
    /\ dpc' = "while"
    /\ UNCHANGED <<keep_connection_open, lock, run, capture, cpc, released>>
    /\ UNCHANGED <<wvars, cvars, evars>>

\* grab() is called by thread c and reaches `with self.lock:`.
GrabCall(c) ==
    /\ cpc[c] = "idle"
    /\ cpc' = [cpc EXCEPT ![c] = "grab_lock"]
    /\ UNCHANGED <<keep_connection_open, lock, run, capture, dpc, released>>
    /\ UNCHANGED <<wvars, cvars, evars>>

\* grab(): lock acquired, `self.capture.read()` entered.
GrabAcquire(c) ==
    /\ cpc[c] = "grab_lock"
    /\ LockAcquire(c)
    /\ cpc' = [cpc EXCEPT ![c] = "grab_read"]
    /\ UNCHANGED <<keep_connection_open, run, capture, dpc, released>>
    /\ UNCHANGED <<wvars, cvars, evars>>

\* What `self.capture.read()` can answer for ret: a session that is not open
\* has no frame to give.
ReadResults ==
    IF capture = "open" THEN BOOLEAN ELSE {FALSE}

\* A grab() that returns early on a failed read, from inside a lock taken
\* by hand, without giving it back.
GrabReadKeepsLock(c) ==
    /\ cpc[c] = "grab_read"
    /\ \E ret \in ReadResults :
          /\ last_grab' = [last_grab EXCEPT ![c] = IF ret THEN "frame" ELSE "none"]
          /\ IF ret THEN LockRelease ELSE UNCHANGED lock
    /\ cpc' = [cpc EXCEPT ![c] = "idle"]
    /\ UNCHANGED <<keep_connection_open, run, capture, dpc, released>>
    /\ UNCHANGED <<wvars, cvars, mvars, shutdownAt, ctor, openable, pvars>>

\* grab(): `self.capture.read()` returns (ret, frame), with a frame or with
\* (False, None); `if not ret:` only logs; the `with` block releases the lock
\* and grab() returns frame.
GrabRead(c) ==
    /\ cpc[c] = "grab_read"
    /\ \E ret \in ReadResults :
          last_grab' = [last_grab EXCEPT ![c] = IF ret THEN "frame" ELSE "none"]
    /\ LockRelease
    /\ cpc' = [cpc EXCEPT ![c] = "idle"]
    /\ UNCHANGED <<keep_connection_open, run, capture, dpc, released>>
    /\ UNCHANGED <<wvars, cvars, mvars, shutdownAt, ctor, openable, pvars>>

\* release() in kept-open mode: `self.run = False`, then _close_connection
\* reaches `with self.lock:`.
ReleaseCall(c) ==
    /\ cpc[c] = "idle"
    /\ keep_connection_open
    /\ run' = FALSE
    /\ cpc' = [cpc EXCEPT ![c] = "close_lock"]
    /\ UNCHANGED <<keep_connection_open, lock, capture, dpc, released>>
    /\ UNCHANGED <<wvars, cvars, evars>>

\* release() in open-per-call mode: the `if` is false, nothing happens.
ReleaseNoop(c) ==
    /\ cpc[c] = "idle"
    /\ ~keep_connection_open
    /\ released' = TRUE
    /\ UNCHANGED <<keep_connection_open, lock, run, capture, dpc, cpc>>
    /\ UNCHANGED <<wvars, cvars, evars>>

\* _close_connection: lock acquired, `self.capture.release()` entered.
CloseAcquire(c) ==
    /\ cpc[c] = "close_lock"
    /\ LockAcquire(c)
    /\ cpc' = [cpc EXCEPT ![c] = "close_release"]
    /\ UNCHANGED <<keep_connection_open, run, capture, dpc, released>>
    /\ UNCHANGED <<wvars, cvars, evars>>

\* _close_connection: the session is released, the lock is released and
\* release() returns.
CloseRelease(c) ==
    /\ cpc[c] = "close_release"
    /\ capture' = "released"
    /\ LockRelease
    /\ cpc' = [cpc EXCEPT ![c] = "idle"]
    /\ released' = TRUE
    /\ UNCHANGED <<keep_connection_open, run, dpc>>
    /\ UNCHANGED <<wvars, cvars, evars>>

\* The threads that are inside a call on self.capture.
InSession ==
    (IF dpc = "grab" THEN {DrainThread} ELSE {})
        \cup {c \in Callers : cpc[c] \in {"grab_read", "close_release"}}

\* ------------------------------------------------------------------------
\* image_processing.py
\* ------------------------------------------------------------------------

\* Fractions of a dimension are counted in quarters: 0, 0.25, 0.5, 0.75 and 1
\* are exact as Python floats, and so are their sums and products here.
Quarter == 4

\* Python's int() of the quotient n/d (d > 0): truncation towards zero.
IntTrunc(n, d) ==
    IF n >= 0 THEN n \div d ELSE -((-n) \div d)

\* The comma-separated fields of a crop string, by what float() makes of
\* them: a number (in quarters, from -0.25 to 1.25), nan (float("nan") is
\* accepted by float()), or text for which float() raises ValueError.
Fields ==
    {<<"num", n>> : n \in -1..(Quarter + 1)} \cup {<<"nan", 0>>, <<"bad", 0>>}

\* crop_string.split(","): the strings considered.
CropStrings ==
    UNION {[1..n -> Fields] : n \in 3..MaxFields}

IsNan(f) == f[1] = "nan"

\* Python's float comparisons and arithmetic: every comparison with nan is
\* False, every sum or product with nan is nan.
FloatLess(a, b) == ~IsNan(a) /\ ~IsNan(b) /\ a[2] < b[2]
FloatAdd(a, b) == IF IsNan(a) \/ IsNan(b) THEN <<"nan", 0>> ELSE <<"num", a[2] + b[2]>>
FloatMulIsZero(a, b) == ~IsNan(a) /\ ~IsNan(b) /\ a[2] * b[2] = 0

Zero == <<"num", 0>>
One == <<"num", Quarter>>

\* `(n < 0) or (n > 1)`
OutOfRange(f) ==
    FloatLess(f, Zero) \/ FloatLess(One, f)

\* parse_crop_string: the exception raised ("none": none) and the tuple
\* returned.
ParseCropString(parts) ==
    LET fail == [raised |-> "ValueError", numbers |-> <<>>]
    IN  IF Len(parts) # 4 THEN fail
        ELSE IF \E i \in 1..4 : parts[i][1] = "bad" THEN fail
        ELSE IF \E i \in 1..4 : OutOfRange(parts[i]) THEN fail
        ELSE IF FloatLess(One, FloatAdd(parts[1], parts[3])) THEN fail
        ELSE IF FloatLess(One, FloatAdd(parts[2], parts[4])) THEN fail
        ELSE IF FloatMulIsZero(parts[3], parts[4]) THEN fail
        ELSE [raised |-> "none", numbers |-> parts]

\* The crop regions that parse_crop_string returns for well-formed numbers:
\* <<x, y, w, h>> in quarters.
CropRegions ==
    {r \in [1..4 -> 0..Quarter] :
        r[1] + r[3] <= Quarter /\ r[2] + r[4] <= Quarter /\ r[3] * r[4] > 0}

Dims == 1..MaxDim

\* numpy's frame[a:b] on an axis of length n (0 <= a, 0 <= b): the indices
\* are clipped to the axis.
Clip(i, n) == IF i > n THEN n ELSE i

\* A crop whose far edge is computed from the sum of offset and size.
CropFrameFromSum(H, W, r) ==
    LET x1 == IntTrunc(W * r[1], Quarter)
        y1 == IntTrunc(H * r[2], Quarter)
        x2 == IntTrunc(W * (r[1] + r[3]), Quarter)
        y2 == IntTrunc(H * (r[2] + r[4]), Quarter)
    IN  [x1 |-> Clip(x1, W), x2 |-> Clip(x2, W),
         y1 |-> Clip(y1, H), y2 |-> Clip(y2, H),
         rows |-> IF Clip(y2, H) > Clip(y1, H) THEN Clip(y2, H) - Clip(y1, H) ELSE 0,
         cols |-> IF Clip(x2, W) > Clip(x1, W) THEN Clip(x2, W) - Clip(x1, W) ELSE 0]

\* crop_frame on a frame of H rows and W columns: the slice taken and its
\* size.
CropFrame(H, W, r) ==
    LET x1 == IntTrunc(W * r[1], Quarter)
        y1 == IntTrunc(H * r[2], Quarter)
        x2 == x1 + IntTrunc(W * r[3], Quarter)
        y2 == y1 + IntTrunc(H * r[4], Quarter)
    IN  [x1 |-> Clip(x1, W), x2 |-> Clip(x2, W),
         y1 |-> Clip(y1, H), y2 |-> Clip(y2, H),
         rows |-> IF Clip(y2, H) > Clip(y1, H) THEN Clip(y2, H) - Clip(y1, H) ELSE 0,
         cols |-> IF Clip(x2, W) > Clip(x1, W) THEN Clip(x2, W) - Clip(x1, W) ELSE 0]

\* The resize targets considered (argparse type=int accepts negatives).
ResizeTargets == -1..MaxDim

\* cv2.resize(frame, dsize=(w, h)) without scale factors: an empty dsize
\* (a side <= 0) is an error, otherwise the result has h rows and w columns.
Cv2Resize(w, h) ==
    IF w <= 0 \/ h <= 0
    THEN [raised |-> "cv2.error", rows |-> 0, cols |-> 0, same |-> FALSE]
    ELSE [raised |-> "none", rows |-> h, cols |-> w, same |-> FALSE]

\* resize_if_needed on a frame of H rows and W columns.
ResizeIfNeeded(H, W, width, height) ==
    IF width = 0 /\ height = 0
    THEN [raised |-> "none", rows |-> H, cols |-> W, same |-> TRUE]
    ELSE LET target_width ==
                 IF width > 0 THEN width ELSE IntTrunc(W * height, H)
             target_height ==
                 IF height > 0 THEN height ELSE IntTrunc(H * width, W)
         IN  Cv2Resize(target_width, target_height)

\* One call of each function, on arguments drawn from the sets above.
CallParseCropString ==
    /\ call.fn = "none"
    /\ \E parts \in CropStrings :
          call' = [fn |-> "parse_crop_string", parts |-> parts,
                   out |-> ParseCropString(parts)]
    /\ UNCHANGED <<dvars, svars, crop_on>>
    /\ UNCHANGED <<wvars, gvars, cvars, mvars, shutdownAt, ctor, openable, last_grab>>

CallCropFrame ==
    /\ call.fn = "none"
    /\ \E H \in Dims, W \in Dims, r \in CropRegions :
          call' = [fn |-> "crop_frame", H |-> H, W |-> W, region |-> r,
                   out |-> CropFrame(H, W, r)]
    /\ UNCHANGED <<dvars, svars, crop_on>>
    /\ UNCHANGED <<wvars, gvars, cvars, mvars, shutdownAt, ctor, openable, last_grab>>

CallResizeIfNeeded ==
    /\ call.fn = "none"
    /\ \E H \in Dims, W \in Dims, width \in ResizeTargets, height \in ResizeTargets :
          call' = [fn |-> "resize_if_needed", H |-> H, W |-> W,
                   width |-> width, height |-> height,
                   out |-> ResizeIfNeeded(H, W, width, height)]
    /\ UNCHANGED <<dvars, svars, crop_on>>
    /\ UNCHANGED <<wvars, gvars, cvars, mvars, shutdownAt, ctor, openable, last_grab>>

\* ------------------------------------------------------------------------
\* grabber.py: FileStreamFrameGrabber
\* ------------------------------------------------------------------------

\* Python's round(): n/d (d > 0) rounded to the nearest integer, a tie going
\* to the even neighbour.
RoundHalfEven(n, d) ==
    LET f == n \div d
        r == n % d
    IN  IF 2 * r < d THEN f
        ELSE IF 2 * r > d THEN f + 1
        ELSE IF f % 2 = 0 THEN f ELSE f + 1

\* <<native rate, target rate>> of the files and targets considered, in
\* frames per second.
FileRates == {<<30, 7>>, <<30, 4>>, <<25, 10>>, <<24, 5>>, <<30, 30>>, <<30, 0>>}

\* FileStreamFrameGrabber.__init__ has returned (the frame it reads first is
\* not counted).
InitFileGrabber ==
    /\ \E r \in FileRates : fps_source = r[1] /\ fps_target = r[2]
    /\ remainder = 0
    /\ consumed = 0
    /\ kgrabs = 0

\* `drop_frames = (fps_source / fps_target) - 1 + remainder`, in units of
\* 1/(100 * fps_target) frame: remainder is kept in hundredths of a frame.
DropFrames ==
    100 * (fps_source - fps_target) + remainder * fps_target

\* `round(drop_frames)`: the number of frames read and thrown away.
Dropped ==
    RoundHalfEven(DropFrames, 100 * fps_target)

\* `self.remainder = round(drop_frames - round(drop_frames), 2)`
NextRemainder ==
    RoundHalfEven(DropFrames - Dropped * 100 * fps_target, fps_target)

\* FileStreamFrameGrabber.grab() on a file that has frames left: with a
\* target below the native rate it reads and drops round(drop_frames) frames
\* and carries the remainder; then it reads the frame it returns.
FileGrab ==
    /\ kgrabs < MaxGrabs
    /\ kgrabs' = kgrabs + 1
    /\ IF fps_target > 0 /\ fps_target < fps_source
       THEN /\ consumed' = consumed + Dropped + 1
            /\ remainder' = NextRemainder
       ELSE /\ consumed' = consumed + 1
            /\ UNCHANGED remainder
    /\ UNCHANGED <<fps_source, fps_target>>
    /\ UNCHANGED <<call, svars, crop_on>>
    /\ UNCHANGED <<wvars, gvars, cvars, mvars, shutdownAt, ctor, openable, last_grab>>

\* ------------------------------------------------------------------------
\* main.py / stream.py: run_capture_loop
\* ------------------------------------------------------------------------
TicksPerSecond == 10
BackoffTicks == 1
Never == StartTime + Horizon + 1

FpsChoices == {0, 1, 5}
MotionChoices == {<<TicksPerSecond, 5 * TicksPerSecond>>}
GrabTimes == {0, MaxGrabTime}

\* The grabber classes of grabber.py, given to run_capture_loop of stream.py
\* by FrameGrabber.create_grabber.
GrabberKinds == {"device", "directory", "rtsp", "youtube", "file", "image_url"}

\* How a failed read leaves grab(): "none" is a returned None, "raise" an
\* exception that is no GrabError, "graberror" a framegrab GrabError.
FailedRead(kind) ==
    CASE kind = "device" -> {"raise"}
      [] kind = "file" -> {"raise"}
      [] kind = "directory" -> {"none", "raise"}
      [] kind = "rtsp" -> {"none"}
      [] kind = "youtube" -> {"none", "raise"}
      [] kind = "image_url" -> {"none"}
      [] kind = "framegrab" -> {"none", "graberror"}

\* What the loop makes of a failed read: a frame of None (the loop goes on)
\* or an exception that leaves run_capture_loop.
Surfaces(kind, loop, failure) ==
    IF failure = "none" \/ (failure = "graberror" /\ loop = "main")
    THEN "none"
    ELSE "raise"

\* `desired_delay = 1 / fps if fps > 0 else 0`, in ticks.
DesiredDelay ==
    IF fps > 0 THEN TicksPerSecond \div fps ELSE 0

\* The locals of run_capture_loop before its first cycle.
InitCapture ==
    /\ cap_pc = "running"
    /\ \/ loop_kind = "main" /\ grabber_kind = "framegrab"
       \/ loop_kind = "stream" /\ grabber_kind \in GrabberKinds
    /\ fps \in FpsChoices
    /\ crop_on \in BOOLEAN
    /\ \/ /\ motion_enabled = FALSE
          /\ post_motion_time = 0
          /\ max_frame_interval = 0
       \/ /\ motion_enabled = TRUE
          /\ \E m \in MotionChoices :
                post_motion_time = m[1] /\ max_frame_interval = m[2]
    /\ now = StartTime
    /\ last_frame_time = StartTime
    /\ motion_start = 0
    /\ ngrab = 0
    /\ nframes = 0
    /\ cyc = [outcome |-> "init", motion |-> FALSE, enq |-> FALSE,
              seen |-> "-", queued |-> "-",
              at |-> StartTime, sinceMotion |-> Never, sinceEnq |-> 0,
              start |-> StartTime, slept |-> 0]
    /\ motionAt = -1
    /\ nmotion = 0
    /\ enqAt = StartTime
    /\ gap = 0

\* A gate whose heartbeat rule fires at `>=`.
AddFrameHeartbeatAtEqual(detected, tsm, tslf) ==
    \/ ~motion_enabled
    \/ detected
    \/ tsm < post_motion_time
    \/ tslf >= max_frame_interval

\* A gate whose post-motion rule still fires at `<=`.
AddFramePostMotionAtEqual(detected, tsm, tslf) ==
    \/ ~motion_enabled
    \/ detected
    \/ tsm <= post_motion_time
    \/ tslf > max_frame_interval

\* A gate without the heartbeat rule.
AddFrameNoHeartbeat(detected, tsm, tslf) ==
    \/ ~motion_enabled
    \/ detected
    \/ tsm < post_motion_time

\* A gate that is consulted even when there is no motion detector.
AddFrameGateAlways(detected, tsm, tslf) ==
    \/ detected
    \/ tsm < post_motion_time
    \/ tslf > max_frame_interval

\* add_frame_to_queue, as the if/elif chain of the loop sets it.
AddFrameToQueue(detected, tsm, tslf) ==
    IF ~motion_enabled THEN TRUE
    ELSE IF detected THEN TRUE
    ELSE IF tsm < post_motion_time THEN TRUE
    ELSE IF tslf > max_frame_interval THEN TRUE
    ELSE FALSE

\* A loop that sleeps the whole period after every frame, whatever the cycle
\* has already taken.
AfterDelayWholePeriod(start, t) ==
    IF DesiredDelay > 0 THEN t + DesiredDelay ELSE t

\* `time.sleep(actual_delay)` unless actual_delay < 0: the time at which the
\* next cycle starts, for a cycle started at `start` that is now at `t`.
AfterDelay(start, t) ==
    IF DesiredDelay > 0 /\ DesiredDelay - (t - start) >= 0
    THEN t + (DesiredDelay - (t - start))
    ELSE t

\* A loop that leaves the crop out.
CropStepSkipped(frame) ==
    frame

\* `if crop_region: frame = crop_frame(frame, crop_region)`: the frame that
\* the rest of the cycle works on.
CropStep(frame) ==
    IF crop_on THEN "cropped" ELSE frame

\* A loop that notes the time of every frame, enqueued or not.
LastFrameTimeEveryFrame(add, t) ==
    t

\* `last_frame_time = time.time()` inside `if add_frame_to_queue:`.
LastFrameTime(add, t) ==
    IF add THEN t ELSE last_frame_time

\* A cycle can start: the loop is running (and the model's bounds allow it).
CanCycle ==
    /\ cap_pc = "running"
    /\ ngrab < MaxCycles
    /\ now < StartTime + Horizon

\* One cycle of `while True:` in which grab() returns a frame after dGrab
\* ticks and the motion detector, if there is one, answers `motion`.  The
\* frame is cropped first; cyc records the frame that the motion detector is
\* given (seen) and the frame that is put on the queue (queued).  The
\* clock reads that follow grab() in one cycle (lines 134-167) fall within
\* one tick: t stands for all of them.  motion_start starts at 0, the epoch,
\* far before StartTime.
CycleFrame(dGrab, motion) ==
    /\ CanCycle
    /\ LET t == now + dGrab
           detected == motion_enabled /\ motion
           tsm == t - motion_start
           tslf == t - last_frame_time
           add == AddFrameToQueue(detected, tsm, tslf)
           frame == CropStep("raw")
       IN  /\ ngrab' = ngrab + 1
           /\ nframes' = nframes + 1
           /\ motion_start' = IF detected THEN t ELSE motion_start
           /\ IF add
              THEN /\ QueuePut(ngrab + 1)
                   /\ nput' = nput + 1
                   /\ gap' = t - enqAt
                   /\ enqAt' = t
              ELSE UNCHANGED <<q, unfinished, nput, gap, enqAt>>
           /\ last_frame_time' = LastFrameTime(add, t)
           /\ now' = AfterDelay(now, t)
           /\ cyc' = [outcome |-> "frame", motion |-> detected,
                      enq |-> Len(q') > Len(q),
                      seen |-> IF motion_enabled THEN frame ELSE "-",
                      queued |-> IF add THEN frame ELSE "-",
                      at |-> t,
                      sinceMotion |-> IF motionAt = -1 THEN Never ELSE t - motionAt,
                      sinceEnq |-> t - enqAt,
                      start |-> now, slept |-> now' - t]
           /\ motionAt' = IF detected THEN t ELSE motionAt
           /\ nmotion' = IF detected /\ nmotion < 2 THEN nmotion + 1 ELSE nmotion
    /\ UNCHANGED <<cap_pc, loop_kind, grabber_kind, fps, motion_enabled,
                   post_motion_time, max_frame_interval>>
    /\ UNCHANGED <<exit_all_threads, num_workers, wpc, work, calls, callers, raised>>
    /\ UNCHANGED <<gvars, evars>>

\* A cycle that puts the missing frame on the queue instead of `continue`.
NoFrameEnqueued(dGrab) ==
    /\ QueuePut(ngrab + 1)
    /\ nput' = nput + 1
    /\ now' = now + dGrab + BackoffTicks

\* `if frame is None:` warn, `time.sleep(0.1)`, `continue`.
NoFrame(dGrab) ==
    /\ now' = now + dGrab + BackoffTicks
    /\ UNCHANGED <<q, unfinished, nput>>

\* One cycle in which the read fails and the loop sees a frame of None.
CycleNoFrame(dGrab) ==
    /\ CanCycle
    /\ \E f \in FailedRead(grabber_kind) : Surfaces(grabber_kind, loop_kind, f) = "none"
    /\ NoFrame(dGrab)
    /\ ngrab' = ngrab + 1
    /\ cyc' = [outcome |-> "none", motion |-> FALSE, enq |-> Len(q') > Len(q),
               seen |-> "-", queued |-> "-",
               at |-> now + dGrab, sinceMotion |-> Never, sinceEnq |-> 0,
               start |-> now, slept |-> now' - (now + dGrab)]
    /\ UNCHANGED <<cap_pc, loop_kind, grabber_kind, fps, motion_enabled,
                   post_motion_time, max_frame_interval, last_frame_time,
                   motion_start, nframes, motionAt, nmotion, enqAt, gap>>
    /\ UNCHANGED <<exit_all_threads, num_workers, wpc, work, calls, callers, raised>>
    /\ UNCHANGED <<gvars, evars>>

\* One cycle in which the read fails with an exception that the loop does not
\* catch: it leaves run_capture_loop.
CycleRaise(dGrab) ==
    /\ CanCycle
    /\ \E f \in FailedRead(grabber_kind) : Surfaces(grabber_kind, loop_kind, f) = "raise"
    /\ cap_pc' = "raised"
    /\ now' = now + dGrab
    /\ ngrab' = ngrab + 1
    /\ cyc' = [outcome |-> "raise", motion |-> FALSE, enq |-> FALSE,
               seen |-> "-", queued |-> "-",
               at |-> now + dGrab, sinceMotion |-> Never, sinceEnq |-> 0,
               start |-> now, slept |-> 0]
    /\ UNCHANGED <<loop_kind, grabber_kind, fps, motion_enabled,
                   post_motion_time, max_frame_interval, last_frame_time,
                   motion_start, nframes, motionAt, nmotion, enqAt, gap>>
    /\ UNCHANGED wvars
    /\ UNCHANGED <<gvars, evars>>

\* ------------------------------------------------------------------------
\* main.py / stream.py: main()
\* ------------------------------------------------------------------------

\* The two entry points built on setup_workers.
Entries == {"main", "stream"}

\* main() after setup_workers has returned: the workers run, the main thread
\* is about to go on (main.py: to print_banner; stream.py: to the try block).
InitMain ==
    /\ entry \in Entries
    /\ args_fps \in FpsChoices
    /\ main_pc = "setup"
    /\ loop_started = FALSE
    /\ interrupted = FALSE
    /\ joined = 0

\* The workers are daemon threads: they run for as long as the main thread
\* has neither returned nor died of an exception.
ProcessAlive ==
    main_pc \in {"setup", "capture", "finally", "handler", "join"}

\* print_banner of main.py evaluates `1/args.fps`: ZeroDivisionError for
\* --fps 0, raised outside the try block.  stream.py has no banner.
BannerRaises ==
    entry = "main" /\ args_fps = 0

\* From setup_workers to run_capture_loop: main.py prints the banner first.
MainStart ==
    /\ main_pc = "setup"
    /\ IF BannerRaises
       THEN /\ main_pc' = "crashed"
            /\ UNCHANGED loop_started
       ELSE /\ main_pc' = "capture"
            /\ loop_started' = TRUE
    /\ UNCHANGED <<entry, args_fps, interrupted, joined, force_exit_raised>>
    /\ UNCHANGED <<wvars, gvars, cvars, shutdownAt, ctor, openable, pvars, last_grab>>

\* run_capture_loop puts a frame on the queue.
MainPut ==
    /\ main_pc = "capture"
    /\ Put

\* KeyboardInterrupt reaches the try block: main.py logs and goes to its
\* finally clause, stream.py enters its handler.
MainInterrupt ==
    /\ main_pc = "capture"
    /\ interrupted' = TRUE
    /\ main_pc' = IF entry = "main" THEN "finally" ELSE "handler"
    /\ UNCHANGED <<entry, args_fps, loop_started, joined, force_exit_raised>>
    /\ UNCHANGED <<wvars, gvars, cvars, shutdownAt, ctor, openable, pvars, last_grab>>

\* run_capture_loop raises another exception: main.py catches Exception and
\* goes to its finally clause, stream.py has no handler for it.
MainLoopRaises ==
    /\ main_pc = "capture"
    /\ main_pc' = IF entry = "main" THEN "finally" ELSE "crashed"
    /\ UNCHANGED <<entry, args_fps, loop_started, interrupted, joined, force_exit_raised>>
    /\ UNCHANGED <<wvars, gvars, cvars, shutdownAt, ctor, openable, pvars, last_grab>>

\* main.py, finally: `tc.shutdown()`.
MainShutdown ==
    /\ main_pc = "finally"
    /\ exit_all_threads' = TRUE
    /\ shutdownAt' = nput
    /\ main_pc' = "join"
    /\ UNCHANGED <<entry, args_fps, loop_started, interrupted, joined, force_exit_raised>>
    /\ UNCHANGED <<q, unfinished, num_workers, wpc, work, nput, calls, callers, raised>>
    /\ UNCHANGED <<gvars, cvars, ctor, openable, pvars, last_grab>>

\* stream.py, handler: `tc.force_exit()` raises AttributeError (ThreadControl
\* of threads.py has no such method); `sys.exit(-1)` is not reached and the
\* main thread dies of the exception.
MainForceExit ==
    /\ main_pc = "handler"
    /\ force_exit_raised' = TRUE
    /\ main_pc' = "crashed"
    /\ UNCHANGED <<entry, args_fps, loop_started, interrupted, joined>>
    /\ UNCHANGED <<wvars, gvars, cvars, shutdownAt, ctor, openable, pvars, last_grab>>

\* A join without timeout: it returns only when the worker has exited.
MainJoinNoTimeout ==
    /\ main_pc = "join"
    /\ joined < num_workers
    /\ wpc[joined + 1] = "exited"
    /\ joined' = joined + 1
    /\ UNCHANGED <<main_pc, entry, args_fps, loop_started, interrupted, force_exit_raised>>
    /\ UNCHANGED <<wvars, gvars, cvars, shutdownAt, ctor, openable, pvars, last_grab>>

\* main.py, finally: one `worker.join(timeout=5.0)` returns, because the
\* worker has exited or because the five seconds are over.
MainJoin ==
    /\ main_pc = "join"
    /\ joined < num_workers
    /\ joined' = joined + 1
    /\ UNCHANGED <<main_pc, entry, args_fps, loop_started, interrupted, force_exit_raised>>
    /\ UNCHANGED <<wvars, gvars, cvars, shutdownAt, ctor, openable, pvars, last_grab>>

\* main.py: every worker has been joined, main() returns.
MainReturn ==
    /\ main_pc = "join"
    /\ joined = num_workers
    /\ main_pc' = "exited"
    /\ UNCHANGED <<entry, args_fps, loop_started, interrupted, joined, force_exit_raised>>
    /\ UNCHANGED <<wvars, gvars, cvars, shutdownAt, ctor, openable, pvars, last_grab>>

\* ------------------------------------------------------------------------
\* main.py / stream.py: main(), from the command line to the first frame
\* ------------------------------------------------------------------------

\* --fps is counted in tenths of a frame per second.
FpsUnit == 10

\* The values of --fps considered (argparse type=float): -1, 0, 0.5, 1, 2.5
\* and 5 frames per second.
CliFps == {-10, 0, 5, 10, 25, 50}

\* `10 if fps == 0 else ...`
FallbackWorkers == 10

\* math.ceil(n/d) for d > 0.
Ceil(n, d) == -((-n) \div d)

\* `worker_count = 10 if fps == 0 else math.ceil(fps)`
WorkerCount(f) ==
    IF f = 0 THEN FallbackWorkers ELSE Ceil(f, FpsUnit)

\* The choices of --streamtype, and a value outside them.
StreamTypes == {"infer", "device", "directory", "rtsp", "youtube", "file", "image_url"}
StreamTypeArgs == StreamTypes \cup {"invalid"}

\* The values of --stream considered, and what the tests of create_grabber
\* and int() find in them.
Idents == {"0", "rtsp://cam/live", "https://www.youtube.com/watch?v=1",
           "*.jpg", "video.mp4", "http://host/image.jpg", "nosuch"}
AllDigits(id) == id = "0"
HasStar(id) == id = "*.jpg"
RtspPrefix(id) == id = "rtsp://cam/live"
YoutubeUrl(id) == id = "https://www.youtube.com/watch?v=1"
IsFile(id) == id = "video.mp4"
HttpPrefix(id) == id \in {"https://www.youtube.com/watch?v=1", "http://host/image.jpg"}

\* The values of --crop considered, as the fields of the string (<<>>: the
\* option is None or empty): the whole frame, a centred region, three
\* fields, a width of 1.25, a field that is no number, a field that is nan.
CropArgs ==
    {<<>>,
     <<Zero, Zero, One, One>>,
     <<<<"num", 1>>, <<"num", 1>>, <<"num", 2>>, <<"num", 2>>>>,
     <<Zero, Zero, One>>,
     <<Zero, Zero, <<"num", Quarter + 1>>, One>>,
     <<<<"bad", 0>>, Zero, One, One>>,
     <<<<"nan", 0>>, Zero, One, One>>}

\* main() is entered with a command line.
InitStartup ==
    /\ su_pc = "parse_args"
    /\ cli \in [entry : Entries, crop : CropArgs, streamtype : StreamTypeArgs,
                 stream : Idents, fps : CliFps, keep : BOOLEAN]
    /\ stream = "str"
    /\ stream_type = "none"
    /\ grabber = "none"
    /\ worker_count = 0
    /\ nthreads = 0
    /\ su_error = "none"

\* parser.parse_args(): a --streamtype outside `choices` ends the program
\* with SystemExit.
StartParseArgs ==
    /\ su_pc = "parse_args" /\ su_error = "none"
    /\ IF cli.streamtype \in StreamTypes
       THEN su_pc' = "crop" /\ UNCHANGED su_error
       ELSE su_error' = "SystemExit" /\ UNCHANGED su_pc
    /\ UNCHANGED <<cli, stream, stream_type, grabber, worker_count, nthreads>>
    /\ UNCHANGED <<call, dvars, crop_on>>
    /\ UNCHANGED <<wvars, gvars, cvars, mvars, shutdownAt, ctor, openable, last_grab>>

\* `crop_region = parse_crop_string(args.crop) if args.crop else None`
StartCrop ==
    /\ su_pc = "crop" /\ su_error = "none"
    /\ IF cli.crop = <<>> \/ ParseCropString(cli.crop).raised = "none"
       THEN su_pc' = "stream_args" /\ UNCHANGED su_error
       ELSE su_error' = ParseCropString(cli.crop).raised /\ UNCHANGED su_pc
    /\ UNCHANGED <<cli, stream, stream_type, grabber, worker_count, nthreads>>
    /\ UNCHANGED <<call, dvars, crop_on>>
    /\ UNCHANGED <<wvars, gvars, cvars, mvars, shutdownAt, ctor, openable, last_grab>>

\* parse_stream_args of stream.py (validate_stream_args of main.py has the
\* same `infer` branch): the exception raised, the kind of value that stream
\* has become and the stream type (`none`: None).
ParseStreamArgs(id, st) ==
    IF st \notin StreamTypes
    THEN [raised |-> "ValueError", stream |-> "str", stream_type |-> "none"]
    ELSE IF st = "infer"
    THEN [raised |-> "none",
          stream |-> IF AllDigits(id) THEN "int" ELSE "str",
          stream_type |-> "none"]
    ELSE [raised |-> "none", stream |-> "str", stream_type |-> st]

\* `stream, stream_type = parse_stream_args(args)`
StartStreamArgs ==
    /\ su_pc = "stream_args" /\ su_error = "none"
    /\ LET r == ParseStreamArgs(cli.stream, cli.streamtype)
       IN  IF r.raised = "none"
           THEN /\ su_pc' = "grabber"
                /\ stream' = r.stream
                /\ stream_type' = r.stream_type
                /\ UNCHANGED su_error
           ELSE /\ su_error' = r.raised
                /\ UNCHANGED <<su_pc, stream, stream_type>>
    /\ UNCHANGED <<cli, grabber, worker_count, nthreads>>
    /\ UNCHANGED <<call, dvars, crop_on>>
    /\ UNCHANGED <<wvars, gvars, cvars, mvars, shutdownAt, ctor, openable, last_grab>>

\* The if/elif chain of FrameGrabber.create_grabber: the class chosen, or
\* the exception raised before any class is chosen.  With an int the first
\* test goes on to evaluate `not streamtype`, a name that is not defined.
ChooseGrabber(val, id, st) ==
    IF val = "int" THEN "NameError"
    ELSE IF st = "device" THEN "device"
    ELSE IF (HasStar(id) /\ st = "none") \/ st = "directory" THEN "directory"
    ELSE IF (RtspPrefix(id) /\ st = "none") \/ st = "rtsp" THEN "rtsp"
    ELSE IF (YoutubeUrl(id) /\ st = "none") \/ st = "youtube" THEN "youtube"
    ELSE IF (IsFile(id) /\ st = "none") \/ st = "file" THEN "file"
    ELSE IF (HttpPrefix(id) /\ st = "none") \/ st = "image_url" THEN "image_url"
    ELSE "ValueError"

\* The constructors that create_grabber calls, on a source that answers
\* (ok) or does not: DeviceFrameGrabber raises on `int(stream)` of a string
\* that is no number; RTSPFrameGrabber (kept open by default) and
\* YouTubeFrameGrabber raise ValueError when the source cannot be opened;
\* RTSPFrameGrabber starts its drain thread otherwise.
CreateGrabber(val, id, st, ok) ==
    LET kind == ChooseGrabber(val, id, st)
    IN  IF kind \in {"NameError", "ValueError"}
        THEN [raised |-> kind, grabber |-> "none", threads |-> 0]
        ELSE IF kind = "device" /\ ~AllDigits(id)
        THEN [raised |-> "ValueError", grabber |-> "none", threads |-> 0]
        ELSE IF kind \in {"rtsp", "youtube"} /\ ~ok
        THEN [raised |-> "ValueError", grabber |-> "none", threads |-> 0]
        ELSE [raised |-> "none", grabber |-> kind,
              threads |-> IF kind = "rtsp" THEN 1 ELSE 0]

\* framegrabber_factory, called by main.py: it rejects a source it cannot
\* serve and returns a framegrab grabber otherwise, which runs a drain
\* thread for an RTSP source kept open.
FramegrabberFactory(val, id, st, keep, ok) ==
    IF ~ok \/ (st = "none" /\ val = "str" /\ id = "nosuch")
    THEN [raised |-> "ValueError", grabber |-> "none", threads |-> 0]
    ELSE [raised |-> "none", grabber |-> "framegrab",
          threads |-> IF keep /\ (st = "rtsp" \/ (st = "none" /\ RtspPrefix(id)))
                      THEN 1 ELSE 0]

\* `grabber = FrameGrabber.create_grabber(...)` (stream.py),
\* `grabber = framegrabber_factory(...)` (main.py).
StartGrabber ==
    /\ su_pc = "grabber" /\ su_error = "none"
    /\ \E ok \in BOOLEAN :
          LET r == IF cli.entry = "stream"
                   THEN CreateGrabber(stream, cli.stream, stream_type, ok)
                   ELSE FramegrabberFactory(stream, cli.stream, stream_type, cli.keep, ok)
          IN  IF r.raised = "none"
              THEN /\ su_pc' = "workers"
                   /\ grabber' = r.grabber
                   /\ nthreads' = nthreads + r.threads
                   /\ UNCHANGED su_error
              ELSE /\ su_error' = r.raised
                   /\ UNCHANGED <<su_pc, grabber, nthreads>>
    /\ UNCHANGED <<cli, stream, stream_type, worker_count>>
    /\ UNCHANGED <<call, dvars, crop_on>>
    /\ UNCHANGED <<wvars, gvars, cvars, mvars, shutdownAt, ctor, openable, last_grab>>

\* worker_count and setup_workers: `for _ in range(num_workers)` starts one
\* thread per turn, none for a count of 0 or less.
StartWorkers ==
    /\ su_pc = "workers" /\ su_error = "none"
    /\ worker_count' = WorkerCount(cli.fps)
    /\ nthreads' = nthreads + (IF worker_count' > 0 THEN worker_count' ELSE 0)
    /\ su_pc' = IF cli.entry = "main" THEN "banner" ELSE "loop"
    /\ UNCHANGED <<cli, stream, stream_type, grabber, su_error>>
    /\ UNCHANGED <<call, dvars, crop_on>>
    /\ UNCHANGED <<wvars, gvars, cvars, mvars, shutdownAt, ctor, openable, last_grab>>

\* main.py: print_banner, which divides by args.fps.
StartBanner ==
    /\ su_pc = "banner" /\ su_error = "none"
    /\ IF cli.fps = 0
       THEN su_error' = "ZeroDivisionError" /\ UNCHANGED su_pc
       ELSE su_pc' = "loop" /\ UNCHANGED su_error
    /\ UNCHANGED <<cli, stream, stream_type, grabber, worker_count, nthreads>>
    /\ UNCHANGED <<call, dvars, crop_on>>
    /\ UNCHANGED <<wvars, gvars, cvars, mvars, shutdownAt, ctor, openable, last_grab>>

\* run_capture_loop gets its first frame: `if crop_region:` crop_frame is
\* called, and int() of a nan product raises ValueError.
StartFirstFrame ==
    /\ su_pc = "loop" /\ su_error = "none"
    /\ IF \E i \in 1..Len(cli.crop) : IsNan(cli.crop[i])
       THEN su_error' = "ValueError" /\ UNCHANGED su_pc
       ELSE su_pc' = "running" /\ UNCHANGED su_error
    /\ UNCHANGED <<cli, stream, stream_type, grabber, worker_count, nthreads>>
    /\ UNCHANGED <<call, dvars, crop_on>>
    /\ UNCHANGED <<wvars, gvars, cvars, mvars, shutdownAt, ctor, openable, last_grab>>

\* ------------------------------------------------------------------------
\* streamlight.py and src/stream.py: frame_processor, the earlier workers
\* ------------------------------------------------------------------------

\* The earlier entry points.
LegacyEntries == {"streamlight", "stream_py"}

\* main() has created the queue and started worker_thread_count threads,
\* each at the head of frame_processor.
InitLegacy ==
    /\ InitWorkers
    /\ entry \in LegacyEntries
    /\ main_pc = "absent"
    /\ args_fps = 0
    /\ loop_started = FALSE
    /\ interrupted = FALSE
    /\ joined = 0

\* `while True:`; src/stream.py then tests `if control.exit_all_threads:
\* break`, streamlight.py has no flag to test.
LegacyWhile(w) ==
    /\ wpc[w] = "while"
    /\ wpc' = [wpc EXCEPT ![w] = IF entry = "stream_py" /\ exit_all_threads
                                 THEN "exited" ELSE "get"]
    /\ UNCHANGED <<q, unfinished, exit_all_threads, num_workers, work, nput,
                   calls, callers, raised>>
    /\ UNCHANGED <<gvars, cvars, evars>>

\* `frame = q.get()` (streamlight.py) or `q.get(timeout=1)` (src/stream.py)
\* returns a frame and the dispatch begins.
LegacyGet(w) ==
    GetItem(w)

\* src/stream.py: the get timed out, `except Empty: continue`.  The get of
\* streamlight.py has no timeout and stays blocked.
LegacyGetEmpty(w) ==
    /\ entry = "stream_py"
    /\ GetEmpty(w)

\* The dispatch (imencode and the submit call) returns: back to the loop
\* head; neither version calls task_done.
LegacyReturn(w) ==
    /\ wpc[w] = "fn"
    /\ work' = [work EXCEPT ![w] = NoWork]
    /\ wpc' = [wpc EXCEPT ![w] = "while"]
    /\ UNCHANGED <<q, unfinished, exit_all_threads, num_workers, nput, calls,
                   callers, raised>>
    /\ UNCHANGED <<gvars, cvars, evars>>

\* The dispatch raises: src/stream.py logs it in `except Exception` and
\* goes on with the loop; streamlight.py has no try block, the exception
\* leaves frame_processor and the thread dies.
LegacyRaise(w) ==
    /\ wpc[w] = "fn"
    /\ work' = [work EXCEPT ![w] = NoWork]
    /\ wpc' = [wpc EXCEPT ![w] = IF entry = "stream_py" THEN "while" ELSE "dead"]
    /\ raised' = raised + 1
    /\ UNCHANGED <<q, unfinished, exit_all_threads, num_workers, nput, calls, callers>>
    /\ UNCHANGED <<gvars, cvars, evars>>

\* src/stream.py: `tc.force_exit()` of its own ThreadControl sets the flag.
LegacyForceExit ==
    /\ entry = "stream_py"
    /\ ~exit_all_threads
    /\ exit_all_threads' = TRUE
    /\ shutdownAt' = nput
    /\ UNCHANGED <<q, unfinished, num_workers, wpc, work, nput, calls, callers, raised>>
    /\ UNCHANGED <<gvars, cvars, mvars, ctor, openable, last_grab, pvars>>

\* ------------------------------------------------------------------------
\* Specifications
\* ------------------------------------------------------------------------

\* The parts of the state that a specification does not run.
NoWorkers ==
    /\ q = <<>>
    /\ unfinished = 0
    /\ exit_all_threads = FALSE
    /\ num_workers = 0
    /\ wpc = [w \in Workers |-> "absent"]
    /\ work = [w \in Workers |-> NoWork]
    /\ nput = 0
    /\ calls = [i \in Items |-> 0]
    /\ callers = [i \in Items |-> {}]
    /\ raised = 0

NoGrabber ==
    /\ keep_connection_open = FALSE
    /\ lock = NoThread
    /\ run = FALSE
    /\ capture = "none"
    /\ dpc = "absent"
    /\ cpc = [c \in Callers |-> "absent"]
    /\ released = FALSE

NoCapture ==
    /\ cap_pc = "absent"
    /\ loop_kind = "none"
    /\ grabber_kind = "none"
    /\ fps = 0
    /\ motion_enabled = FALSE
    /\ post_motion_time = 0
    /\ max_frame_interval = 0
    /\ now = StartTime
    /\ last_frame_time = StartTime
    /\ motion_start = 0
    /\ ngrab = 0
    /\ nframes = 0
    /\ cyc = [outcome |-> "init", motion |-> FALSE, enq |-> FALSE,
              seen |-> "-", queued |-> "-",
              at |-> StartTime, sinceMotion |-> Never, sinceEnq |-> 0,
              start |-> StartTime, slept |-> 0]
    /\ motionAt = -1
    /\ nmotion = 0
    /\ enqAt = StartTime
    /\ gap = 0

NoMain ==
    /\ main_pc = "absent"
    /\ entry = "none"
    /\ args_fps = 0
    /\ loop_started = FALSE
    /\ interrupted = FALSE
    /\ joined = 0

NoCalls ==
    /\ force_exit_raised = FALSE
    /\ shutdownAt = 0
    /\ last_grab = [c \in Callers |-> "-"]

NoConstruct ==
    /\ ctor = "none"
    /\ openable = FALSE

NoCall ==
    call = [fn |-> "none"]

NoFileGrabber ==
    /\ fps_source = 0
    /\ fps_target = 0
    /\ remainder = 0
    /\ consumed = 0
    /\ kgrabs = 0

NoStartup ==
    /\ su_pc = "absent"
    /\ cli = [streamtype |-> "none"]
    /\ stream = "none"
    /\ stream_type = "none"
    /\ grabber = "none"
    /\ worker_count = 0
    /\ nthreads = 0
    /\ su_error = "none"

NoCrop ==
    crop_on = FALSE

\* Everything outside the threads, the RTSP grabber and the capture loop.
NoOthers ==
    NoCall /\ NoFileGrabber /\ NoStartup

\* The worker pool: queue, workers, a producer and the shutdown call.
Init == InitWorkers /\ NoGrabber /\ NoCapture /\ NoMain /\ NoCalls /\ NoConstruct /\ NoOthers /\ NoCrop

Next ==
    \/ Put
    \/ Shutdown
    \/ ForceExit
    \/ \E w \in Workers : WhileCheck(w)
    \/ \E w \in Workers : GetItem(w)
    \/ \E w \in Workers : GetEmpty(w)
    \/ \E w \in Workers : FnReturn(w)
    \/ \E w \in Workers : FnRaise(w)

Spec == Init /\ [][Next]_vars

\* The operating system schedules every runnable thread.
FairSpec == Spec /\ \A w \in Workers : WF_vars(WorkerStep(w))

\* The RTSP grabber: its drain thread and the threads calling grab() and
\* release().
GrabberInit ==
    /\ NoWorkers /\ InitGrabber /\ NoCapture /\ NoMain /\ NoCalls
    /\ ctor = "returned"
    /\ openable = (capture = "open")
    /\ NoOthers /\ NoCrop

GrabberNext ==
    \/ DrainWhile
    \/ DrainAcquire
    \/ DrainGrab
    \/ DrainSleep
    \/ \E c \in Callers : GrabCall(c)
    \/ \E c \in Callers : GrabAcquire(c)
    \/ \E c \in Callers : GrabRead(c)
    \/ \E c \in Callers : ReleaseCall(c)
    \/ \E c \in Callers : ReleaseNoop(c)
    \/ \E c \in Callers : CloseAcquire(c)
    \/ \E c \in Callers : CloseRelease(c)

GrabberSpec == GrabberInit /\ [][GrabberNext]_vars

\* One step of the drain thread.
DrainStep == DrainWhile \/ DrainAcquire \/ DrainGrab \/ DrainSleep

\* The operating system schedules every runnable thread, and a thread that
\* waits for the lock gets it if the lock is free again and again: the drain
\* thread sleeps drain_rate seconds with the lock free, and grab() and
\* release() hold it for one call on the session only.
FairGrabberSpec ==
    /\ GrabberSpec
    /\ WF_vars(DrainWhile) /\ SF_vars(DrainAcquire)
    /\ WF_vars(DrainGrab) /\ WF_vars(DrainSleep)
    /\ \A c \in Callers :
          /\ SF_vars(GrabAcquire(c)) /\ WF_vars(GrabRead(c))
          /\ SF_vars(CloseAcquire(c)) /\ WF_vars(CloseRelease(c))

\* The RTSP grabber from its construction on.
ConstructInit ==
    /\ NoWorkers /\ InitConstruct /\ NoCapture /\ NoMain /\ NoCalls
    /\ NoOthers /\ NoCrop

ConstructNext ==
    \/ Construct
    \/ DrainWhile
    \/ DrainAcquire
    \/ DrainGrab
    \/ DrainSleep
    \/ \E c \in Callers : GrabCall(c)
    \/ \E c \in Callers : GrabAcquire(c)
    \/ \E c \in Callers : GrabRead(c)
    \/ \E c \in Callers : ReleaseCall(c)
    \/ \E c \in Callers : ReleaseNoop(c)
    \/ \E c \in Callers : CloseAcquire(c)
    \/ \E c \in Callers : CloseRelease(c)

ConstructSpec == ConstructInit /\ [][ConstructNext]_vars

\* An entry point: the main thread of main() and the workers it started.
MainInit ==
    /\ InitWorkers /\ NoGrabber /\ NoCapture /\ InitMain /\ NoCalls /\ NoConstruct
    /\ NoOthers /\ NoCrop

MainNext ==
    \/ MainStart
    \/ MainPut
    \/ MainInterrupt
    \/ MainLoopRaises
    \/ MainShutdown
    \/ MainForceExit
    \/ MainJoin
    \/ MainReturn
    \/ \E w \in Workers : ProcessAlive /\ WhileCheck(w)
    \/ \E w \in Workers : ProcessAlive /\ GetItem(w)
    \/ \E w \in Workers : ProcessAlive /\ GetEmpty(w)
    \/ \E w \in Workers : ProcessAlive /\ FnReturn(w)
    \/ \E w \in Workers : ProcessAlive /\ FnRaise(w)

MainSpec == MainInit /\ [][MainNext]_vars

\* main() of main.py with a capture loop that offers a few frames.
ShutdownInit ==
    /\ MainInit
    /\ entry = "main"

ShutdownNext ==
    \/ MainStart
    \/ nput < MaxShutdownItems /\ MainPut
    \/ MainInterrupt
    \/ MainLoopRaises
    \/ MainShutdown
    \/ MainJoin
    \/ MainReturn
    \/ \E w \in Workers : ProcessAlive /\ WhileCheck(w)
    \/ \E w \in Workers : ProcessAlive /\ GetItem(w)
    \/ \E w \in Workers : ProcessAlive /\ GetEmpty(w)
    \/ \E w \in Workers : ProcessAlive /\ FnReturn(w)
    \/ \E w \in Workers : ProcessAlive /\ FnRaise(w)

\* The main thread is scheduled, and a join with a timeout returns; nothing
\* is assumed about the workers, whose fn may never return.
ShutdownSpec ==
    /\ ShutdownInit /\ [][ShutdownNext]_vars
    /\ WF_vars(MainShutdown)
    /\ WF_vars(MainJoin)
    /\ WF_vars(MainReturn)

\* A FileStreamFrameGrabber and the grab() calls made on it.
FileInit ==
    /\ NoWorkers /\ NoGrabber /\ NoCapture /\ NoMain /\ NoCalls /\ NoConstruct
    /\ NoCall /\ InitFileGrabber /\ NoStartup /\ NoCrop

FileNext ==
    FileGrab

FileSpec == FileInit /\ [][FileNext]_vars

\* The functions of image_processing.py, called once each.
CallInit ==
    /\ NoWorkers /\ NoGrabber /\ NoCapture /\ NoMain /\ NoCalls /\ NoConstruct
    /\ NoOthers /\ NoCrop

CallNext ==
    \/ CallParseCropString
    \/ CallCropFrame
    \/ CallResizeIfNeeded

CallSpec == CallInit /\ [][CallNext]_vars

\* main() from its command line to the first frame of the capture loop.
StartupInit ==
    /\ NoWorkers /\ NoGrabber /\ NoCapture /\ NoMain /\ NoCalls /\ NoConstruct
    /\ NoCall /\ NoFileGrabber /\ InitStartup /\ NoCrop

StartupNext ==
    \/ StartParseArgs
    \/ StartCrop
    \/ StartStreamArgs
    \/ StartGrabber
    \/ StartWorkers
    \/ StartBanner
    \/ StartFirstFrame

StartupSpec == StartupInit /\ [][StartupNext]_vars

\* The end-to-end scenario: run_capture_loop of main.py at 5 frames per
\* second without motion detection, feeding the workers of setup_workers.
PipelineInit ==
    /\ InitWorkers /\ NoGrabber /\ InitCapture /\ NoMain /\ NoCalls /\ NoConstruct
    /\ NoOthers /\ NoCrop
    /\ loop_kind = "main"
    /\ fps = 5
    /\ ~motion_enabled

\* The workers have done what they do within one period: a worker blocked in
\* q.get() is woken by a put at once, and fn returns or raises before the
\* period is over.
Quiescent ==
    \A w \in Started :
        /\ wpc[w] \notin {"while", "fn"}
        /\ wpc[w] = "get" => q = <<>>

\* The next cycle of the loop: grab() returns a frame at once.
PipelineCycle ==
    /\ Quiescent
    /\ ngrab < MaxPipelineCycles
    /\ CycleFrame(0, FALSE)

PipelineNext ==
    \/ PipelineCycle
    \/ \E w \in Workers : WhileCheck(w)
    \/ \E w \in Workers : GetItem(w)
    \/ \E w \in Workers : GetEmpty(w)
    \/ \E w \in Workers : FnReturn(w)
    \/ \E w \in Workers : FnRaise(w)

PipelineSpec == PipelineInit /\ [][PipelineNext]_vars

\* run_capture_loop of main.py at 5 frames per second, with or without
\* motion detection, feeding workers that run at any speed.
OrderInit ==
    /\ InitWorkers /\ NoGrabber /\ InitCapture /\ NoMain /\ NoCalls /\ NoConstruct
    /\ NoOthers /\ NoCrop
    /\ loop_kind = "main"
    /\ fps = 5

OrderNext ==
    \/ \E m \in BOOLEAN : ngrab < MaxPipelineCycles /\ CycleFrame(0, m)
    \/ ngrab < MaxPipelineCycles /\ CycleNoFrame(0)
    \/ \E w \in Workers : WhileCheck(w)
    \/ \E w \in Workers : GetItem(w)
    \/ \E w \in Workers : GetEmpty(w)
    \/ \E w \in Workers : FnReturn(w)
    \/ \E w \in Workers : FnRaise(w)

OrderSpec == OrderInit /\ [][OrderNext]_vars

\* An earlier entry point: the capture loop offers frames to the threads
\* that run frame_processor.
LegacyInit ==
    /\ InitLegacy /\ NoGrabber /\ NoCapture /\ NoCalls /\ NoConstruct
    /\ NoOthers /\ NoCrop

LegacyNext ==
    \/ Put
    \/ LegacyForceExit
    \/ \E w \in Workers : LegacyWhile(w)
    \/ \E w \in Workers : LegacyGet(w)
    \/ \E w \in Workers : LegacyGetEmpty(w)
    \/ \E w \in Workers : LegacyReturn(w)
    \/ \E w \in Workers : LegacyRaise(w)

LegacySpec == LegacyInit /\ [][LegacyNext]_vars

\* The capture loop, cycle by cycle.
CaptureInit == NoWorkers /\ NoGrabber /\ InitCapture /\ NoMain /\ NoCalls /\ NoConstruct /\ NoOthers

CaptureNext ==
    \/ \E d \in GrabTimes, m \in BOOLEAN : CycleFrame(d, m)
    \/ \E d \in GrabTimes : CycleNoFrame(d)
    \/ \E d \in GrabTimes : CycleRaise(d)

CaptureSpec == CaptureInit /\ [][CaptureNext]_vars

\* ------------------------------------------------------------------------
\* Properties
\* ------------------------------------------------------------------------

\* The items offered so far that are still in the queue.
Queued == {q[k] : k \in 1..Len(q)}

\* C1: no enqueued item is passed to fn more than once: every item that left
\* the queue was dispatched exactly once, by exactly one worker, and an item
\* still in the queue is there once and has not been dispatched.
ExactlyOnceDispatch ==
    /\ \A i \in Items : calls[i] <= 1 /\ Cardinality(callers[i]) = calls[i]
    /\ \A i \in 1..nput : (i \in Queued) <=> (calls[i] = 0)
    /\ \A j, k \in 1..Len(q) : q[j] = q[k] => j = k

\* Three items were dispatched, by three different workers.
ExactlyOnceWitness ==
    /\ nput = 3
    /\ \A i \in 1..3 : calls[i] = 1
    /\ Cardinality(UNION {callers[i] : i \in 1..3}) = 3

\* C2: once N items have been enqueued for the N workers, then (unless
\* shutdown is signalled or more items arrive) eventually fn has been invoked
\* once for each of them and the queue is empty; fn may raise.
AllItemsDelivered ==
    (nput = num_workers)
        ~> \/ exit_all_threads
           \/ nput > num_workers
           \/ (q = <<>> /\ \A i \in 1..num_workers : calls[i] = 1)

\* N = 3 items went to 3 workers, every invocation raised, the queue is
\* empty and nobody signalled shutdown.
AllItemsDeliveredWitness ==
    /\ num_workers = 3
    /\ nput = 3
    /\ ~exit_all_threads
    /\ q = <<>>
    /\ \A i \in 1..3 : calls[i] = 1
    /\ raised = 3

\* C3: a step in which fn raises leaves the queue and the shutdown flag as
\* they are, puts the worker that ran fn back at the head of its loop, and
\* changes no other worker.
FailureIsolated ==
    [][raised' # raised =>
          /\ q' = q
          /\ exit_all_threads' = exit_all_threads
          /\ \E w \in Workers :
                /\ wpc[w] = "fn"
                /\ wpc'[w] = "while"
                /\ \A v \in Workers \ {w} : wpc'[v] = wpc[v] /\ work'[v] = work[v]]_vars

\* A single worker whose fn raised is running fn again on a later item.
FailureIsolatedWitness ==
    /\ num_workers = 1
    /\ raised >= 1
    /\ wpc[1] = "fn"
    /\ work[1] >= 2

\* C4: at most one thread is inside a call on the capture session, and the
\* thread that is inside holds the lock.
SessionMutex ==
    /\ Cardinality(InSession) <= 1
    /\ \A t \in InSession : lock = t

\* The drain thread is inside capture.grab() while one caller waits for the
\* lock in grab() and another in release().
SessionMutexWitness ==
    /\ keep_connection_open
    /\ dpc = "grab"
    /\ \E c, d \in Callers : cpc[c] = "grab_lock" /\ cpc[d] = "close_lock"

\* C5: once release() has returned, the drain loop is never again inside a
\* call on the capture session.
NoDrainAfterRelease ==
    (keep_connection_open /\ released) => dpc # "grab"

\* C6: with motion detection, a grabbed frame is enqueued if and only if
\* motion was detected on it, or the last motion is less than
\* post_motion_time ago, or the last enqueue is more than max_frame_interval
\* ago.
MotionGateRule ==
    (motion_enabled /\ cyc.outcome = "frame") =>
        (cyc.enq <=> \/ cyc.motion
                     \/ cyc.sinceMotion < post_motion_time
                     \/ cyc.sinceEnq > max_frame_interval)

\* A frame was rejected after a motion event and frames of its post-motion
\* window had been enqueued.
MotionGateWitness ==
    /\ motion_enabled
    /\ cyc.outcome = "frame"
    /\ ~cyc.enq
    /\ nmotion = 1
    /\ nput >= 3

AfterSingleMotion ==
    /\ motion_enabled
    /\ post_motion_time = TicksPerSecond
    /\ max_frame_interval = 5 * TicksPerSecond
    /\ nmotion = 1
    /\ cyc.outcome = "frame"
    /\ ~cyc.motion

\* C8 as claimed: t being the time since the motion event, the frame is
\* accepted for t in [0, 1.0), rejected for t in [1.0, 5.0) and accepted at
\* t = 5.0.
SingleMotionScenario ==
    AfterSingleMotion =>
        LET t == cyc.at - motionAt
        IN  /\ t < TicksPerSecond => cyc.enq
            /\ (t >= TicksPerSecond /\ t < 5 * TicksPerSecond) => ~cyc.enq
            /\ t = 5 * TicksPerSecond => cyc.enq

\* C8 amended: the frame is accepted for t in [0, 1.0) and rejected for t in
\* [1.0, 5.0]; from t = 1.0 on it is accepted exactly when more than 5.0 s
\* have passed since the last enqueued frame.
SingleMotionScenarioAmended ==
    AfterSingleMotion =>
        LET t == cyc.at - motionAt
        IN  /\ t < TicksPerSecond => cyc.enq
            /\ (t >= TicksPerSecond /\ t <= 5 * TicksPerSecond) => ~cyc.enq
            /\ t >= TicksPerSecond => (cyc.enq <=> cyc.sinceEnq > 5 * TicksPerSecond)

\* The heartbeat frame after a single motion event was enqueued, later than
\* 5.0 s after the event.
SingleMotionWitness ==
    /\ AfterSingleMotion
    /\ cyc.enq
    /\ cyc.at - motionAt > 5 * TicksPerSecond

\* C9: a cycle whose read failed leaves the capture loop running.
FailedReadKeepsLoopRunning ==
    cyc.outcome \in {"none", "raise"} => cap_pc = "running"

\* C10: a cycle without a frame puts nothing on the queue, and as long as no
\* grab has returned a frame the queue is empty.
NoFrameNothingQueued ==
    /\ cyc.outcome \in {"none", "raise"} => ~cyc.enq
    /\ nframes = 0 => (q = <<>> /\ nput = 0)

\* Three grabs in a row returned no frame and the loop is still running.
NoFrameWitness ==
    /\ cap_pc = "running"
    /\ ngrab >= 3
    /\ nframes = 0
    /\ cyc.outcome = "none"

\* C11: without motion detection every grabbed frame is enqueued: the number
\* of frames put on the queue equals the number of successful grabs.
EveryFrameQueued ==
    ~motion_enabled =>
        /\ nput = nframes
        /\ Len(q) = nframes
        /\ cyc.outcome = "frame" => cyc.enq

\* Without motion detection, three frames were grabbed and queued while
\* other grabs of the same run failed.
EveryFrameQueuedWitness ==
    /\ cap_pc = "running"
    /\ ~motion_enabled
    /\ nframes >= 3
    /\ ngrab > nframes
    /\ Len(q) = nframes

\* All the workers that were started have left worker_loop.
AllExited == \A w \in Started : wpc[w] = "exited"

\* C12: once the shutdown flag is set, every worker (idle, or busy with an
\* fn that returns) eventually leaves its loop.
ShutdownStopsWorkers ==
    exit_all_threads ~> AllExited

\* Three idle workers have left their loops after shutdown although no item
\* was ever put on the queue.
ShutdownStopsWorkersWitness ==
    /\ num_workers = 3
    /\ exit_all_threads
    /\ nput = 0
    /\ AllExited

\* C13 as claimed: when the last worker has exited, every item that was
\* enqueued before shutdown has been delivered.
NothingLeftAtExit ==
    AllExited => \A i \in 1..shutdownAt : calls[i] = 1

\* C13 amended: a worker leaves its loop only at the loop head, with the
\* shutdown flag set and no item in hand (whatever the queue holds).
ExitOnlyOnShutdown ==
    [][\A w \in Workers :
          (wpc[w] # "exited" /\ wpc'[w] = "exited") =>
              /\ exit_all_threads
              /\ wpc[w] = "while"
              /\ work[w] = NoWork]_vars

\* All workers have exited and an item enqueued before shutdown is still in
\* the queue.
ExitOnlyOnShutdownWitness ==
    /\ exit_all_threads
    /\ AllExited
    /\ \E i \in 1..shutdownAt : i \in Queued

\* C14: a ThreadControl starts with exit_all_threads false, the flag is true
\* after force_exit() has been called on it, and a true flag never becomes
\* false again.  As claimed: the second part fails, because the call raises
\* AttributeError and leaves the flag as it was.
ForceExitSetsFlag ==
    force_exit_raised => exit_all_threads

\* C16: in open-per-call mode the capture session is open only during a
\* grab() call, so between grab() calls no session is open.  As claimed: once
\* a grab() has returned a frame and no thread is inside grab(), the session
\* is not open.  It fails: __init__ opens the session, grab() only reads from
\* it and release() does nothing in this mode.
SessionOpenOnlyDuringGrab ==
    (/\ ~keep_connection_open
     /\ \E c \in Callers : last_grab[c] = "frame"
     /\ \A c \in Callers : cpc[c] = "idle")
        => capture # "open"

\* C18: a grab() whose read fails returns the no-frame value to its caller
\* (it does not raise), and no thread that is back from grab() holds the
\* lock, so that a later grab() or drain cycle can acquire it.  A session
\* that never opened makes every read fail, so no grab() returns a frame.
GrabFailureReturnsNone ==
    \A c \in Callers :
        /\ last_grab[c] \in {"-", "frame", "none"}
        /\ capture = "unopened" => last_grab[c] # "frame"
        /\ cpc[c] = "idle" => lock # c

\* A thread is back from a failed grab() and another thread (the drain thread
\* or another caller) has taken the lock since.
GrabFailureWitness ==
    \E c \in Callers :
        /\ last_grab[c] = "none"
        /\ cpc[c] = "idle"
        /\ lock \notin {NoThread, c}

\* C19: with a target fps > 0, a cycle of run_capture_loop that grabbed a
\* frame sleeps exactly max(0, 1/fps - elapsed), elapsed being the time since
\* the cycle started: the sleep is never negative, and the next cycle starts
\* at least 1/fps after this one started.
SleepCompensates ==
    (fps > 0 /\ cyc.outcome = "frame") =>
        LET period == TicksPerSecond \div fps
            elapsed == cyc.at - cyc.start
        IN  /\ cyc.slept = (IF period - elapsed > 0 THEN period - elapsed ELSE 0)
            /\ cyc.slept >= 0
            /\ now - cyc.start >= period

\* Two frames in a row at a target rate: the latest cycle overran its period
\* and did not sleep, after one that was faster than its period and slept
\* the rest of it.
SleepCompensatesWitness ==
    /\ fps > 0
    /\ cyc.outcome = "frame"
    /\ nframes >= 2
    /\ cyc.at - cyc.start > TicksPerSecond \div fps
    /\ cyc.slept = 0
    /\ cyc.start - StartTime = TicksPerSecond \div fps

\* C17: constructing an RTSPFrameGrabber on a source whose session cannot be
\* opened fails with ConnectionError in both modes, returns no object and
\* starts no drain thread.  As claimed: it fails in both modes, kept-open
\* raises ValueError and open-per-call returns the object.
ConstructFailureRaisesConnectionError ==
    (ctor # "pending" /\ ~openable) =>
        /\ ctor = "ConnectionError"
        /\ dpc = "absent"
        /\ \A c \in Callers : cpc[c] = "absent"

\* C15: in both entry points, when the capture loop is interrupted by the
\* user the shutdown flag is true before the entry point exits.  As claimed:
\* it fails for stream.py, whose handler calls the missing force_exit().
InterruptSetsFlag ==
    (interrupted /\ main_pc \in {"exited", "crashed"}) => exit_all_threads

\* C20: with a target fps of 0 the program starts its workers and runs the
\* capture loop, uncapped.  As claimed: once main() has left its set-up with
\* args.fps = 0, run_capture_loop has been entered.  It fails for main.py,
\* whose banner divides by args.fps before the loop.
FpsZeroRunsLoop ==
    (args_fps = 0 /\ main_pc # "setup") => loop_started

\* C22: FileStreamFrameGrabber with a native rate above a positive target:
\* after k grabs the number of source frames consumed is within one frame of
\* k * native / target, for every k.  As claimed: it fails, the remainder is
\* rounded to two decimals at every grab and the error adds up.
DecimationWithinOneFrame ==
    (fps_target > 0 /\ fps_target < fps_source) =>
        /\ consumed * fps_target - kgrabs * fps_source <= fps_target
        /\ kgrabs * fps_source - consumed * fps_target <= fps_target

\* What C23 and C24 call a valid crop: four numbers, each in [0,1], with
\* x+w <= 1, y+h <= 1 and w*h > 0.
CropStringValid(parts) ==
    /\ Len(parts) = 4
    /\ \A i \in 1..4 : parts[i][1] = "num" /\ parts[i][2] >= 0 /\ parts[i][2] <= Quarter
    /\ parts[1][2] + parts[3][2] <= Quarter
    /\ parts[2][2] + parts[4][2] <= Quarter
    /\ parts[3][2] * parts[4][2] > 0

\* The slice that crop_frame took lies inside the source frame.
CropInside ==
    /\ 0 <= call.out.x1 /\ call.out.x1 <= call.out.x2 /\ call.out.x2 <= call.W
    /\ 0 <= call.out.y1 /\ call.out.y1 <= call.out.y2 /\ call.out.y2 <= call.H

\* C23 as claimed: for every valid crop tuple crop_frame returns exactly h*H
\* rows and w*W columns, inside the source frame.
CropFrameExactSize ==
    call.fn = "crop_frame" =>
        /\ call.out.rows * Quarter = call.region[4] * call.H
        /\ call.out.cols * Quarter = call.region[3] * call.W
        /\ CropInside

\* C23 amended: for every valid crop tuple crop_frame returns int(h*H) rows
\* and int(w*W) columns, the products truncated to integers, starting at row
\* int(y*H) and column int(x*W) and lying inside the source frame.
CropFrameTruncatedSize ==
    call.fn = "crop_frame" =>
        /\ call.out.rows = (call.region[4] * call.H) \div Quarter
        /\ call.out.cols = (call.region[3] * call.W) \div Quarter
        /\ call.out.y1 = (call.region[2] * call.H) \div Quarter
        /\ call.out.x1 = (call.region[1] * call.W) \div Quarter
        /\ call.out.y2 = call.out.y1 + call.out.rows
        /\ call.out.x2 = call.out.x1 + call.out.cols
        /\ CropInside

\* A crop away from the origin whose sizes are not whole numbers of pixels
\* before truncation.
CropFrameWitness ==
    /\ call.fn = "crop_frame"
    /\ call.out.x1 > 0 /\ call.out.y1 > 0
    /\ call.out.rows > 0 /\ call.out.cols > 0
    /\ call.out.rows * Quarter < call.region[4] * call.H
    /\ call.out.cols * Quarter < call.region[3] * call.W

\* C24: parse_crop_string returns the four numbers when and only when the
\* string is a valid crop, and raises ValueError, returning nothing, for
\* every other string.  As claimed: it fails for a field that reads nan.
ParseCropStringIffValid ==
    call.fn = "parse_crop_string" =>
        IF CropStringValid(call.parts)
        THEN call.out.raised = "none" /\ call.out.numbers = call.parts
        ELSE call.out.raised = "ValueError" /\ call.out.numbers = <<>>

\* C25: resize_if_needed returns the frame unchanged when width and height
\* are both 0; with exactly one of them nonzero it returns a frame with that
\* dimension equal to the target and the other scaled by the same ratio, up
\* to truncation; with both nonzero the result has the requested width and
\* height.  As claimed: it fails when the scaled dimension truncates to 0 and
\* for a negative target, where cv2.resize raises.
ResizeAsClaimed ==
    call.fn = "resize_if_needed" =>
        IF call.width = 0 /\ call.height = 0
        THEN call.out.raised = "none" /\ call.out.same
        ELSE /\ call.out.raised = "none"
             /\ call.out.cols = (IF call.width # 0 THEN call.width
                                 ELSE IntTrunc(call.W * call.height, call.H))
             /\ call.out.rows = (IF call.height # 0 THEN call.height
                                 ELSE IntTrunc(call.H * call.width, call.W))

\* The steps of main() after setup_workers has returned.
WorkersStarted == su_pc \in {"banner", "loop", "running"}

\* C21: main() starts 10 worker threads when fps is 0 and ceil(fps)
\* otherwise, and at least 1 for every value of fps that the command line
\* accepts.  As claimed: it fails for a negative fps, which argparse accepts
\* and for which range(worker_count) is empty.
WorkerCountAtLeastOne ==
    WorkersStarted =>
        /\ worker_count = (IF cli.fps = 0 THEN FallbackWorkers
                           ELSE Ceil(cli.fps, FpsUnit))
        /\ worker_count >= 1

\* C26: with stream type infer an identifier of digits selects the device
\* grabber, rtsp:// the RTSP grabber, youtube.com the YouTube grabber, a
\* glob the directory grabber, an existing path the file grabber, and
\* anything else is rejected with ValueError; an explicit stream type alone
\* selects the grabber.  As claimed: it fails for an identifier of digits,
\* where create_grabber raises NameError, and for an http URL, which is
\* given the image URL grabber.
InferSelectsGrabber ==
    LET id == cli.stream
        claimed == IF cli.streamtype # "infer" THEN cli.streamtype
                   ELSE IF AllDigits(id) THEN "device"
                   ELSE IF RtspPrefix(id) THEN "rtsp"
                   ELSE IF YoutubeUrl(id) THEN "youtube"
                   ELSE IF HasStar(id) THEN "directory"
                   ELSE IF IsFile(id) THEN "file"
                   ELSE "rejected"
    IN  cli.entry = "stream" =>
            /\ su_pc \in {"workers", "loop", "running"} => grabber = claimed
            /\ su_pc = "grabber" /\ su_error # "none" => su_error = "ValueError"

\* main() has ended with a configuration error: the arguments were rejected
\* at start-up, or the crop region was rejected when the first frame was
\* cropped.
ConfigurationError ==
    /\ su_error \in {"SystemExit", "ValueError"}
    /\ su_pc \in {"parse_args", "crop", "stream_args", "loop"}

\* C27: a malformed crop string or an invalid stream type makes main() fail
\* before any worker or drain thread is started: no thread has been started
\* in any run that ends with a configuration error.  As claimed: it fails
\* for a crop string with a nan field, which parse_crop_string accepts.
NoThreadBeforeConfigurationError ==
    ConfigurationError => nthreads = 0

\* C28: RTSPFrameGrabber.release() is idempotent: after one call or several
\* the grabber is in the same state, running flag false and session closed,
\* and no call raises or blocks.  As claimed: once a release() has returned,
\* whatever other calls follow, run is false and the session is not open.  It
\* fails in open-per-call mode, where release() does nothing.
ReleasedStateIsFinal ==
    released => (~run /\ capture # "open")

\* C30: when a crop region is configured, the crop is applied before motion
\* evaluation and before enqueueing in every cycle: the frame given to the
\* motion detector and the frame put on the queue are both the cropped
\* frame, never the uncropped one.
CropBeforeMotionAndQueue ==
    (crop_on /\ cyc.outcome = "frame") =>
        /\ cyc.seen # "raw"
        /\ cyc.queued # "raw"
        /\ motion_enabled => cyc.seen = "cropped"
        /\ cyc.enq => cyc.queued = "cropped"

\* A cycle of a loop with a crop region in which the motion detector has
\* seen the frame, found motion, and the frame has been put on the queue.
CropBeforeMotionAndQueueWitness ==
    /\ crop_on
    /\ cyc.outcome = "frame"
    /\ cyc.motion
    /\ cyc.seen = "cropped"
    /\ cyc.enq
    /\ cyc.queued = "cropped"

InProgress == {w \in Workers : wpc[w] = "fn"}

\* C33: with N workers created by setup_workers, the number of per-item
\* actions in progress at the same time never exceeds N, and each worker has
\* at most one item in hand at any moment: only started workers run fn, a
\* worker holds an item exactly while it runs fn, and no two workers hold the
\* same item.
InFlightBounded ==
    /\ Cardinality(InProgress) <= num_workers
    /\ InProgress \subseteq Started
    /\ \A w \in Workers : (work[w] # NoWork) <=> (w \in InProgress)
    /\ \A v, w \in InProgress : work[v] = work[w] => v = w

\* Two workers are both inside fn and a third item waits in the queue for
\* one of them.
InFlightBoundedWitness ==
    /\ num_workers = 2
    /\ Cardinality(InProgress) = 2
    /\ Len(q) = 1

\* C37: worker_loop calls task_done exactly once for every item it takes,
\* whether fn returned or raised, and never for an empty poll: the queue's
\* count of unfinished tasks equals the number of items still queued plus the
\* number of items being processed.
UnfinishedIsQueuedPlusInProgress ==
    unfinished = Len(q) + Cardinality(InProgress)

\* After an fn that raised, one item is queued, one is being processed and
\* the count of unfinished tasks is 2.
UnfinishedWitness ==
    /\ raised >= 1
    /\ Len(q) = 1
    /\ Cardinality(InProgress) = 1
    /\ unfinished = 2

\* C34: shutdown is cooperative: an action in progress when the flag is set
\* runs to completion and is not interrupted, and after the flag is set each
\* worker begins at most one further action, on an item from a take that was
\* already pending, before it exits.  With the flag set, a worker inside fn
\* leaves it only by fn's return (or raise) and task_done, a worker begins an
\* action only from its pending take, a worker at the loop head only exits,
\* and an exited worker stays so.
ShutdownIsCooperative ==
    [][exit_all_threads =>
          \A w \in Workers :
              /\ wpc[w] = "fn" =>
                     \/ wpc'[w] = "fn" /\ work'[w] = work[w]
                     \/ wpc'[w] = "while" /\ unfinished' = unfinished - 1
              /\ (wpc[w] # "fn" /\ wpc'[w] = "fn") => wpc[w] = "get"
              /\ wpc[w] = "while" => wpc'[w] \in {"while", "exited"}
              /\ wpc[w] = "exited" => wpc'[w] = "exited"]_vars

\* After the flag was set a worker whose take was pending has begun an action
\* on an item that was offered later, while another worker has already left.
ShutdownIsCooperativeWitness ==
    /\ exit_all_threads
    /\ \E w \in Workers : wpc[w] = "fn" /\ work[w] > shutdownAt
    /\ \E w \in Workers : wpc[w] = "exited"

\* C31: frames are presented to the motion gate and offered to the queue in
\* the order they were grabbed, and items leave the queue in the order they
\* were offered, whichever workers take them: the queue holds grabbed frames
\* in increasing order of acquisition, and every frame that has left the
\* queue was grabbed before every frame that is still in it.
FramesKeepAcquisitionOrder ==
    /\ \A k \in 1..Len(q) : q[k] \in 1..ngrab
    /\ \A j, k \in 1..Len(q) : j < k => q[j] < q[k]
    /\ \A i \in Items : calls[i] >= 1 => \A k \in 1..Len(q) : i < q[k]

\* The first frame has been taken by a worker, the second was rejected by
\* the motion gate, the third and the fourth wait in the queue.
FramesKeepAcquisitionOrderWitness ==
    /\ motion_enabled
    /\ calls[1] = 1
    /\ calls[2] = 0 /\ 2 \notin Queued
    /\ q = <<3, 4>>

\* C39: in run_capture_loop the motion timer is reset exactly in the cycles
\* where motion is detected and the last-forwarded timestamp is updated
\* exactly in the cycles where a frame is enqueued; a cycle in which the grab
\* failed or the frame was rejected leaves both timestamps and the queue
\* unchanged.
TimestampsFollowCycle ==
    [][/\ motion_start' = (IF cyc'.motion THEN cyc'.at ELSE motion_start)
       /\ last_frame_time' = (IF cyc'.enq THEN cyc'.at ELSE last_frame_time)
       /\ cyc'.enq <=> (Len(q') = Len(q) + 1 /\ cyc'.outcome = "frame")
       /\ (cyc'.outcome # "frame" \/ ~cyc'.enq) =>
              /\ ~cyc'.motion
              /\ motion_start' = motion_start
              /\ last_frame_time' = last_frame_time
              /\ q' = q]_vars

\* A frame has just been rejected by the gate, later than the last motion
\* and the last enqueued frame, whose times are still the ones noted.
TimestampsFollowCycleWitness ==
    /\ motion_enabled
    /\ cyc.outcome = "frame"
    /\ ~cyc.enq
    /\ motion_start = motionAt /\ motion_start < cyc.at
    /\ last_frame_time = enqAt /\ last_frame_time < cyc.at
    /\ last_frame_time > motion_start

\* C35: in kept-open mode the drain loop holds the lock only for the
\* duration of one capture.grab() call and sleeps with the lock released, so
\* a grab() that waits for the lock while the drain loop runs eventually
\* acquires it and returns.
GrabNotStarvedByDrain ==
    /\ [](lock = DrainThread => dpc = "grab")
    /\ \A c \in Callers :
          (keep_connection_open /\ cpc[c] = "grab_lock") ~> (cpc[c] = "idle")

\* A caller that already got a frame from grab() waits in grab() again while
\* the drain thread holds the lock inside capture.grab().
GrabNotStarvedWitness ==
    /\ keep_connection_open
    /\ run
    /\ lock = DrainThread /\ dpc = "grab"
    /\ \E c \in Callers : cpc[c] = "grab_lock" /\ last_grab[c] = "frame"

\* C36: in kept-open mode, after release() is called the drain thread
\* eventually terminates: once the running flag is cleared the loop head
\* leads only out of the loop, so the thread completes at most the cycle it
\* is in and exits.
DrainStopsAfterRelease ==
    /\ [][(keep_connection_open /\ ~run /\ dpc = "while") =>
              dpc' \in {"while", "exited"}]_vars
    /\ [][(keep_connection_open /\ ~run) => ~run']_vars
    /\ (keep_connection_open /\ ~run) ~> (dpc = "exited")

\* release() has returned, the session is released and the drain thread has
\* left its loop.
DrainStopsAfterReleaseWitness ==
    /\ keep_connection_open
    /\ released
    /\ ~run
    /\ capture = "released"
    /\ dpc = "exited"

\* C38: an RTSPFrameGrabber has at most one capture session open at any
\* time, and every session it opened has been closed by the time release()
\* returns.  As claimed: once the constructor has returned and a release()
\* has returned, no session of the grabber is open.  It fails in
\* open-per-call mode, where the session that __init__ opened is closed by
\* nobody.
NoSessionLeftAfterRelease ==
    (ctor = "returned" /\ released) => capture # "open"

\* C32: on shutdown, main() of main.py sets the flag and then joins each
\* worker with a bounded timeout, so main() terminates even if one or more
\* workers never return from their per-item action: the joins come after the
\* flag, main() returns only after one join per worker, and from its finally
\* clause main() always reaches its return.
MainTerminates ==
    /\ []((entry = "main" /\ main_pc = "join") => exit_all_threads)
    /\ []((entry = "main" /\ main_pc = "exited") =>
              (exit_all_threads /\ joined = num_workers))
    /\ (entry = "main" /\ main_pc = "finally") ~> (main_pc = "exited")

\* main() of main.py has returned after joining its three workers, one of
\* which is still inside fn while another frame is left in the queue.
MainTerminatesWitness ==
    /\ entry = "main"
    /\ main_pc = "exited"
    /\ num_workers = 3
    /\ joined = 3
    /\ \E w \in Workers : wpc[w] = "fn"
    /\ q # <<>>

\* C40: in the earlier entry points as well, a dispatch that raises on one
\* item does not terminate the worker that ran it: the number of live
\* workers stays equal to the configured worker count and later items are
\* still processed.  As claimed: unless the flag of src/stream.py is set,
\* every started worker is alive.  It fails for streamlight.py, whose
\* frame_processor has no try block.
LegacyWorkersSurvive ==
    ~exit_all_threads => \A w \in Started : wpc[w] \in {"while", "get", "fn"}

====
